---------------------------- MODULE Spec2Model ----------------------------
(***************************************************************************)
(* A model of ekimekim/restore: the Manifest (add_file, dump, load), the   *)
(* matcher (find_matches / find_match), the restorer (restore_all /        *)
(* check_cycles) and the Archive writer and reader.                        *)
(*                                                                         *)
(* Strings are sequences of symbols.  A symbol is either one of the        *)
(* characters the code gives a meaning to ("/", ",", "=", " ", the tab     *)
(* "\t", the newline "\n", the backslash "\\") or an atom standing for a   *)
(* run of ordinary characters ("w", "tmp", "x.pyc", "..").  The path       *)
(* '/w/d' is <<"/", "w", "/", "d">>.                                       *)
(***************************************************************************)
EXTENDS Integers, Sequences, FiniteSets, TLC

(***************************************************************************)
(* String helpers (Python str methods)                                     *)
(***************************************************************************)

\* s.startswith(c) for a one-symbol prefix
StartsWith(s, c) == Len(s) > 0 /\ s[1] = c

\* s.endswith(c) for a one-symbol suffix
EndsWith(s, c) == Len(s) > 0 /\ s[Len(s)] = c

\* s.split(sep): the pieces between the occurrences of the symbol sep
RECURSIVE SplitOn(_, _)
SplitOn(s, sep) ==
    IF \A i \in 1..Len(s) : s[i] # sep
    THEN <<s>>
    ELSE LET i == CHOOSE k \in 1..Len(s) :
                      s[k] = sep /\ \A j \in 1..(k - 1) : s[j] # sep
         IN  <<SubSeq(s, 1, i - 1)>> \o SplitOn(SubSeq(s, i + 1, Len(s)), sep)

\* s.split(sep, 1): at most one split
SplitOnce(s, sep) ==
    IF \A i \in 1..Len(s) : s[i] # sep
    THEN <<s>>
    ELSE LET i == CHOOSE k \in 1..Len(s) :
                      s[k] = sep /\ \A j \in 1..(k - 1) : s[j] # sep
         IN  <<SubSeq(s, 1, i - 1), SubSeq(s, i + 1, Len(s))>>

\* sep.join(parts), sep a string
RECURSIVE JoinWith(_, _)
JoinWith(parts, sep) ==
    IF Len(parts) = 0 THEN <<>>
    ELSE IF Len(parts) = 1 THEN parts[1]
    ELSE parts[1] \o sep \o JoinWith(Tail(parts), sep)

\* filter(None, parts): the non-empty strings of a list
RECURSIVE FilterNonEmpty(_)
FilterNonEmpty(parts) ==
    IF Len(parts) = 0 THEN <<>>
    ELSE IF Len(parts[1]) = 0 THEN FilterNonEmpty(Tail(parts))
    ELSE <<parts[1]>> \o FilterNonEmpty(Tail(parts))

\* the whitespace str.strip() removes
Whitespace == {" ", "\t", "\n"}

RECURSIVE LStrip(_, _)
LStrip(s, chars) ==
    IF Len(s) > 0 /\ s[1] \in chars THEN LStrip(Tail(s), chars) ELSE s

RECURSIVE RStrip(_, _)
RStrip(s, chars) ==
    IF Len(s) > 0 /\ s[Len(s)] \in chars
    THEN RStrip(SubSeq(s, 1, Len(s) - 1), chars)
    ELSE s

\* s.strip()
Strip(s) == LStrip(RStrip(s, Whitespace), Whitespace)

\* s.rfind(c) + 1: one past the last occurrence of c, 0 when there is none
RFindPlus1(s, c) ==
    IF \A i \in 1..Len(s) : s[i] # c THEN 0
    ELSE CHOOSE k \in 1..Len(s) :
             s[k] = c /\ \A j \in (k + 1)..Len(s) : s[j] # c

(***************************************************************************)
(* os.path (posixpath) on symbol strings                                   *)
(***************************************************************************)

\* os.getcwd(): the working directory of the process, '/w'
Cwd == <<"/", "w">>

isabs(p) == StartsWith(p, "/")

\* the head of posixpath.split: trailing slashes go unless it is all slashes
DirHead(head) ==
    IF Len(head) > 0 /\ \E k \in 1..Len(head) : head[k] # "/"
    THEN RStrip(head, {"/"})
    ELSE head

dirname(p) == DirHead(SubSeq(p, 1, RFindPlus1(p, "/")))

basename(p) == SubSeq(p, RFindPlus1(p, "/") + 1, Len(p))

\* os.path.join(a, b)
join(a, b) ==
    IF StartsWith(b, "/") THEN b
    ELSE IF Len(a) = 0 \/ EndsWith(a, "/") THEN a \o b
    ELSE a \o <<"/">> \o b

\* the loop of normpath over the components
RECURSIVE NormComps(_, _, _)
NormComps(comps, new, initial) ==
    IF Len(comps) = 0 THEN new
    ELSE LET comp == comps[1]
             rest == Tail(comps)
         IN  IF comp = <<>> \/ comp = <<".">>
             THEN NormComps(rest, new, initial)
             ELSE IF comp # <<"..">>
                     \/ (initial = 0 /\ Len(new) = 0)
                     \/ (Len(new) > 0 /\ new[Len(new)] = <<"..">>)
             THEN NormComps(rest, Append(new, comp), initial)
             ELSE IF Len(new) > 0
             THEN NormComps(rest, SubSeq(new, 1, Len(new) - 1), initial)
             ELSE NormComps(rest, new, initial)

\* s or '.'
OrDot(s) == IF s = <<>> THEN <<".">> ELSE s

\* the number of slashes normpath keeps at the front (two only for exactly two)
InitialSlashes(path) ==
    IF ~StartsWith(path, "/") THEN 0
    ELSE IF Len(path) >= 2 /\ path[2] = "/" /\ ~(Len(path) >= 3 /\ path[3] = "/")
    THEN 2
    ELSE 1

normpath(path) ==
    IF path = <<>> THEN <<".">>
    ELSE OrDot([i \in 1..InitialSlashes(path) |-> "/"]
               \o JoinWith(NormComps(SplitOn(path, "/"), <<>>,
                                     InitialSlashes(path)),
                           <<"/">>))

abspath(path) ==
    IF isabs(path) THEN normpath(path) ELSE normpath(join(Cwd, path))

\* len(os.path.commonprefix([a, b])) on component lists
RECURSIVE CommonPrefixLen(_, _)
CommonPrefixLen(a, b) ==
    IF Len(a) = 0 \/ Len(b) = 0 \/ a[1] # b[1] THEN 0
    ELSE 1 + CommonPrefixLen(Tail(a), Tail(b))

\* the end of relpath: as many '..' as start has components past the common
\* prefix, then the rest of path
RelJoin(start_list, path_list, i) ==
    OrDot(JoinWith([k \in 1..(Len(start_list) - i) |-> <<"..">>]
                       \o SubSeq(path_list, i + 1, Len(path_list)),
                   <<"/">>))

RelFrom(start_list, path_list) ==
    RelJoin(start_list, path_list, CommonPrefixLen(start_list, path_list))

\* os.path.relpath(path), start = os.curdir
relpath(path) ==
    RelFrom(FilterNonEmpty(SplitOn(abspath(<<".">>), "/")),
            FilterNonEmpty(SplitOn(abspath(path), "/")))


(***************************************************************************)
(* The filesystem the program runs on: a fixed tree.                       *)
(*   /tmp/x            a file in a directory the ignore handler matches    *)
(*   /w/d/f            a file in a plain directory                         *)
(*   /w/r/a            a tracked file of a git work tree /w/r              *)
(*   /w/l -> d         a symlink with a relative target                    *)
(*   /w/c1 <-> /w/c2   two symlinks that point to each other               *)
(***************************************************************************)
P_root == <<"/">>
P_tmp  == <<"/", "tmp">>
P_tmpx == <<"/", "tmp", "/", "x">>
P_w    == <<"/", "w">>
P_d    == <<"/", "w", "/", "d">>
P_f    == <<"/", "w", "/", "d", "/", "f">>
P_r    == <<"/", "w", "/", "r">>
P_ra   == <<"/", "w", "/", "r", "/", "a">>
P_l    == <<"/", "w", "/", "l">>
P_c1   == <<"/", "w", "/", "c1">>
P_c2   == <<"/", "w", "/", "c2">>
P_lt   == <<"/", "w", "/", "lt">>
P_dr   == <<"/", "w", "/", "d", "/", "random">>

Dir        == [type |-> "dir", target |-> <<>>]
File       == [type |-> "file", target |-> <<>>]
Link(text) == [type |-> "link", target |-> text]

FS ==
    (P_root :> Dir) @@ (P_tmp :> Dir) @@ (P_tmpx :> File) @@ (P_w :> Dir)
    @@ (P_d :> Dir) @@ (P_f :> File) @@ (P_r :> Dir) @@ (P_ra :> File)
    @@ (P_l :> Link(<<"d">>)) @@ (P_c1 :> Link(P_c2)) @@ (P_c2 :> Link(P_c1))
    @@ (P_lt :> Link(P_tmpx))

\* the kernel follows at most this many symlinks in one lookup (ELOOP)
MaxSymlinkHops == 3

\* the result of a lookup that fails (ENOENT, ENOTDIR, ELOOP)
Missing == <<>>

\* Path resolution as the kernel does it: dir is the directory reached so
\* far, comps the components still to walk; the last component is followed
\* when it is a symlink only if followLast.
RECURSIVE Walk(_, _, _, _)

\* one step of the walk onto the entry child of dir
WalkChild(dir, child, rest, followLast, hops) ==
    IF child \notin DOMAIN FS THEN Missing
    ELSE IF FS[child].type = "link" /\ (Len(rest) > 0 \/ followLast)
    THEN IF hops = 0 THEN Missing
         ELSE Walk(IF isabs(FS[child].target) THEN P_root ELSE dir,
                   SplitOn(FS[child].target, "/") \o rest,
                   followLast, hops - 1)
    ELSE Walk(child, rest, followLast, hops)

Walk(dir, comps, followLast, hops) ==
    IF Len(comps) = 0 THEN dir
    ELSE IF dir \notin DOMAIN FS \/ FS[dir].type # "dir" THEN Missing
    ELSE IF comps[1] = <<>> \/ comps[1] = <<".">>
    THEN Walk(dir, Tail(comps), followLast, hops)
    ELSE IF comps[1] = <<"..">>
    THEN Walk(dirname(dir), Tail(comps), followLast, hops)
    ELSE WalkChild(dir, join(dir, comps[1]), Tail(comps), followLast, hops)

\* stat(path) / lstat(path): the node reached, Missing when there is none
\* (the empty path names nothing)
Stat(path) ==
    IF path = <<>> THEN Missing
    ELSE Walk(IF isabs(path) THEN P_root ELSE Cwd, SplitOn(path, "/"), TRUE,
              MaxSymlinkHops)
LStat(path) ==
    IF path = <<>> THEN Missing
    ELSE Walk(IF isabs(path) THEN P_root ELSE Cwd, SplitOn(path, "/"), FALSE,
              MaxSymlinkHops)

\* the node is there and of the type
NodeIs(node, type) == node # Missing /\ FS[node].type = type

exists(path) == Stat(path) # Missing
isdir(path)  == NodeIs(Stat(path), "dir")
isfile(path) == NodeIs(Stat(path), "file")
islink(path) == NodeIs(LStat(path), "link")
readlink(path) == FS[LStat(path)].target

\* os.listdir(path): the names in a directory
listdir(path) ==
    {basename(q) : q \in {k \in DOMAIN FS : k # P_root /\ dirname(k) = Stat(path)}}

(***************************************************************************)
(* Handlers.  A bound handler is a record of its kind name, the filepath   *)
(* it was constructed with and its args; None is the unbound binding.      *)
(* An arg value carries its Python type with the text str() gives it.      *)
(***************************************************************************)
StrVal(s)  == [t |-> "str", s |-> s]
BoolVal(b) == [t |-> "bool", s |-> IF b THEN <<"True">> ELSE <<"False">>]
NoneVal    == [t |-> "NoneType", s |-> <<"None">>]
IntVal(a)  == [t |-> "int", s |-> <<a>>]

\* str(value)
str(v) == [t |-> "str", s |-> v.s]

None == [name |-> "none", filepath |-> <<>>, pos |-> <<>>, kw |-> <<>>]

\* cls(manifest, path, *args, **kwargs)
NewHandler(kind, path, pos, kw) ==
    [name |-> kind, filepath |-> path, pos |-> pos, kw |-> kw]

\* the handler classes that define the attribute restores_contents (all
\* define it True); no other class has the attribute
HasRestoresContents == {"parent", "ignore"}

FIRST_HANDLERS    == <<"parent">>
LAST_HANDLERS     == <<"symbolic-link", "basic-directory", "basic-file">>
U_DEFAULT_HANDLERS == <<"pacman", "ignore", "git-content", "git-clone", "git-bundle">>
DEFAULT_HANDLERS  == FIRST_HANDLERS \o U_DEFAULT_HANDLERS \o LAST_HANDLERS

\* the kinds whose match runs a subprocess or waits for the package index,
\* and so may switch to another greenlet while it runs
MatchYields == {"pacman", "git-content", "git-clone", "git-bundle"}

(***************************************************************************)
(* Manifest.add_file                                                       *)
(***************************************************************************)

\* f with key k bound to v (a dict assignment f[k] = v)
Put(f, k, v) == (k :> v) @@ f

\* the deepest chain of add_file calls the interpreter allows before it
\* raises RuntimeError (maximum recursion depth exceeded)
RecursionLimit == 3

\* Manifest.add_file on the manifest m = [files, absolute]: the manifest
\* after the call, the list it returns, and whether it raised.
RECURSIVE add_file(_, _, _, _, _, _)

\* the end of add_file: bind the path unless it is there and not overwritten
AddFileBind(m1, path, handler, overwrite) ==
    IF m1.raised THEN m1
    ELSE IF overwrite \/ path \notin DOMAIN m1.files
    THEN [m1 EXCEPT !.files = Put(m1.files, path, handler),
                    !.ret = Append(m1.ret, path)]
    ELSE m1

\* whether add_file follows the link at path: exists or islink of linked_path
FollowsLink(path, linked_path) ==
    exists(linked_path) \/ islink(linked_path)

\* add_file once path is coerced to the mode of the manifest
AddFileCoerced(m0, path, handler, overwrite, follow_symlinks, depth) ==
    AddFileBind(
        IF follow_symlinks /\ islink(path)
           /\ FollowsLink(path, join(path, readlink(path)))
        THEN IF depth = 0
             THEN [m0 EXCEPT !.raised = TRUE]
             ELSE add_file(m0, join(path, readlink(path)), None, FALSE,
                           follow_symlinks, depth - 1)
        ELSE m0,
        path, handler, overwrite)

\* add_file once self.absolute is settled
AddFileMode(m, absolute, path0, handler, overwrite, follow_symlinks, depth) ==
    AddFileCoerced([files |-> m.files, absolute |-> absolute,
                    ret |-> <<>>, raised |-> FALSE],
                   IF absolute = "abs"
                   THEN abspath(normpath(path0))
                   ELSE relpath(normpath(path0)),
                   handler, overwrite, follow_symlinks, depth)

add_file(m, path0, handler, overwrite, follow_symlinks, depth) ==
    AddFileMode(m,
                IF m.absolute = "unset"
                THEN (IF isabs(path0) THEN "abs" ELSE "rel")
                ELSE m.absolute,
                path0, handler, overwrite, follow_symlinks, depth)

\* Manifest(): no files, the mode not yet set
EmptyManifest == [files |-> <<>>, absolute |-> "unset"]

\* no add_file call to tell of
NoCall ==
    [op |-> "-", key |-> <<>>, overwrite |-> TRUE, follow_symlinks |-> FALSE,
     ret |-> <<>>]

\* the manifest after add_file(path, handler) for each <<path, handler>> of
\* a list, in order
RECURSIVE AddAll(_, _)
AddAll(m, adds) ==
    IF Len(adds) = 0 THEN [files |-> m.files, absolute |-> m.absolute]
    ELSE AddAll(add_file(m, adds[1][1], adds[1][2], TRUE, FALSE,
                         RecursionLimit),
                Tail(adds))

(***************************************************************************)
(* Handler.match of each kind                                              *)
(***************************************************************************)
NoMatch        == [m |-> "None", pos |-> <<>>, kw |-> <<>>]
Raises         == [m |-> "raise", pos |-> <<>>, kw |-> <<>>]
Match(pos, kw) == [m |-> "match", pos |-> pos, kw |-> kw]

\* getattr(handler, 'restores_contents', False)
GetRestoresContents(handler) == handler.name \in HasRestoresContents

\* whether the manifest binds path to a handler that restores contents
ParentRestoresContents(files, parent) ==
    parent \in DOMAIN files /\ files[parent] # None
    /\ GetRestoresContents(files[parent])

HandledByParentMatch(files, filepath) ==
    IF ParentRestoresContents(files, dirname(filepath))
    THEN Match(<<>>, <<>>)
    ELSE NoMatch

\* the atoms whose text ends in one of IgnoreHandler.MATCH_EXTENSIONS
IgnoredAtoms == {"x.pyc", "y.swp"}
MATCH_PATHS  == {<<"/", "dev">>, <<"/", "proc">>, <<"/", "sys">>, P_tmp,
                 <<"/", "run">>, <<"/", "var", "/", "tmp">>,
                 <<"/", "var", "/", "run">>, <<"/", "var", "/", "lock">>,
                 <<"/", "var", "/", "cache">>}

IgnoreMatch(filepath) ==
    IF (Len(filepath) > 0 /\ filepath[Len(filepath)] \in IgnoredAtoms)
       \/ abspath(filepath) \in MATCH_PATHS
    THEN Match(<<>>, <<>>)
    ELSE NoMatch

BasicDirectoryMatch(filepath) ==
    IF isdir(filepath) THEN Match(<<>>, <<>>) ELSE NoMatch
BasicFileMatch(filepath) ==
    IF isfile(filepath) THEN Match(<<>>, <<>>) ELSE NoMatch
SymbolicLinkMatch(filepath) ==
    IF islink(filepath) THEN Match(<<>>, <<>>) ELSE NoMatch

\* what `pacman -Ql` lists: the package that owns each file
PacmanOwner == (P_tmpx :> <<"pkg">>)

\* PackageHandler.match, once the indexer has finished
PackageMatch(filepath) ==
    IF filepath \in DOMAIN PacmanOwner
    THEN Match(<<StrVal(PacmanOwner[filepath])>>, <<>>)
    ELSE NoMatch

\* the work trees git knows, and the fetch URL of the remote of each
GitWorkTrees == {P_r}
GitFetchUrl  == (P_r :> <<"url">>)

\* the answer of git rev-parse run in the directory node
RepoPick(tops) ==
    IF tops = {} THEN <<NoneVal, <<>>>>
    ELSE <<BoolVal(FALSE), CHOOSE t \in tops : TRUE>>

RepoOfNode(node) ==
    RepoPick({t \in GitWorkTrees :
                 node # Missing /\ Len(node) >= Len(t)
                 /\ SubSeq(node, 1, Len(t)) = t})

\* the directory the git commands run in (cwd=target, '' the process's own)
RepoCwd(target) == IF Len(target) = 0 THEN Cwd ELSE Stat(target)

\* try_get_repo(filepath): <<bare, repo>>, repo = <<>> when in no repository
try_get_repo(filepath) ==
    RepoOfNode(RepoCwd(IF isdir(filepath) THEN filepath ELSE dirname(filepath)))

GitContentOf(filepath, r) ==
    IF r[2] = <<>> \/ r[2] = filepath \/ ~exists(filepath) THEN NoMatch
    ELSE Match(<<StrVal(r[2])>>, <<>>)

GitContentMatch(filepath) == GitContentOf(filepath, try_get_repo(filepath))

\* bad: `git remote show` printed no Fetch URL line (ValueError)
GitCloneOf(filepath, r, bad) ==
    IF r[2] = <<>> \/ r[2] # filepath THEN NoMatch
    ELSE IF bad THEN Raises
    ELSE Match(<<StrVal(GitFetchUrl[r[2]])>>, <<<<<<"bare">>, r[1]>>>>)

GitCloneMatch(filepath, bad) == GitCloneOf(filepath, try_get_repo(filepath), bad)

GitBundleOf(filepath, r) ==
    IF r[2] = <<>> \/ r[2] # filepath THEN NoMatch
    ELSE Match(<<>>, <<<<<<"bare">>, r[1]>>>>)

GitBundleMatch(filepath) == GitBundleOf(filepath, try_get_repo(filepath))

\* cls.match(manifest, path) for the class named kind
KindMatch(kind, files, path, bad) ==
    CASE kind = "parent"          -> HandledByParentMatch(files, path)
      [] kind = "pacman"          -> PackageMatch(path)
      [] kind = "ignore"          -> IgnoreMatch(path)
      [] kind = "git-content"     -> GitContentMatch(path)
      [] kind = "git-clone"       -> GitCloneMatch(path, bad)
      [] kind = "git-bundle"      -> GitBundleMatch(path)
      [] kind = "symbolic-link"   -> SymbolicLinkMatch(path)
      [] kind = "basic-directory" -> BasicDirectoryMatch(path)
      [] kind = "basic-file"      -> BasicFileMatch(path)
      [] OTHER                    -> NoMatch

(***************************************************************************)
(* State                                                                   *)
(***************************************************************************)
VARIABLES
    files,        \* Manifest.files: path -> handler (None when unbound)
    absolute,     \* Manifest.absolute: "unset", "abs" or "rel"
    \* ---- find_matches ----
    cfg,          \* the arguments of the find_matches call
    mainpc,       \* where the greenlet that called find_matches is
    unmatched,    \* the list unmatched
    unadded,      \* the list unadded
    readyKeys,    \* the keys of the dict ready
    isSet,        \* the paths whose Event in ready is set
    readyIsList,  \* the name ready is bound to the list gevent.wait returned
    waited,       \* the paths whose Events the caller waits for (unready)
    sem,          \* the counter of semaphore
    done,         \* done[0]
    progress,     \* the arguments of the last progress_callback call
    task,         \* path -> the match_path greenlet spawned for it
    running,      \* <<p>> while the greenlet of p runs, <<>> in the hub
    invoked,      \* history: the paths some cls.match was called for
    stopped,      \* history: a confirm callback has raised StopMatching
    lateStart,    \* history: the greenlets that started after that
    matcherAdded, \* history: the keys match_path's add_file call added
    \* ---- restore_all ----
    rpc,          \* where the greenlet that called restore_all is
    rchain,       \* the chain of the dependency cycle check_cycles reported
    rtask,        \* path -> the wait_and_restore greenlet mapped over it
    rset,         \* the paths whose Event in restored is set
    rrun,         \* <<p>> while the greenlet of p runs, <<>> in the hub
    \* ---- dump and load ----
    dpc,          \* where the caller of dump and load is
    data,         \* the string dump returned
    loaded,       \* the manifest load is called on: [files, absolute]
    prior,        \* history: that manifest before the last call on it
    edits,        \* the number of load and add_file calls made on it
    called,       \* history: the last add_file call made on it, its result
    \* ---- Archive ----
    apc,          \* where the caller of the archive methods is
    tar,          \* the members of the tar file, in the order written
    anames,       \* Archive._names of the archive written
    backup,       \* history: path -> the extra data its handler returned
    readManifest, \* the manifest get_manifest returned: [files, absolute]
    readExtra,    \* path -> the dict get_extra_data(path) returned
    \* ---- PackageHandler ----
    package_index, \* cls.package_index: path -> package or Event
    indexer,      \* cls.indexer: "None", or how far the greenlet is
    listing,      \* the lines `pacman -Ql` prints
    eventsSet,    \* the Events left in package_index that are set
    lookups       \* the get_package calls made, in the order made

manifestVars == <<files, absolute>>
matchVars ==
    <<cfg, mainpc, unmatched, unadded, readyKeys, isSet, readyIsList,
      waited, sem, done, progress, task, running, invoked, stopped, lateStart,
      matcherAdded>>
restoreVars == <<rpc, rchain, rtask, rset, rrun>>
dumpVars == <<dpc, data, loaded, prior, edits, called>>
archiveVars == <<apc, tar, anames, backup, readManifest, readExtra>>
indexVars == <<package_index, indexer, listing, eventsSet, lookups>>
vars ==
    <<manifestVars, matchVars, restoreVars, dumpVars, archiveVars, indexVars>>

\* what no action of the matcher changes
NotMatcher == <<restoreVars, dumpVars, archiveVars, indexVars>>

\* what no action of the restorer changes
NotRestorer == <<matchVars, dumpVars, archiveVars, indexVars>>

\* what neither dump nor load changes
NotDumper == <<manifestVars, matchVars, restoreVars, archiveVars, indexVars>>

\* what no method of Archive changes
NotArchive == <<manifestVars, matchVars, restoreVars, dumpVars, indexVars>>

\* what no method of PackageHandler changes
NotIndex ==
    <<manifestVars, matchVars, restoreVars, dumpVars, archiveVars>>

\* restore_all is not called
RestorerIdle ==
    /\ rpc = "idle" /\ rchain = <<>> /\ rtask = <<>> /\ rset = {}
    /\ rrun = <<>>

\* neither dump nor load is called
DumperIdle ==
    /\ dpc = "idle" /\ data = <<>>
    /\ loaded = [files |-> <<>>, absolute |-> "unset"]
    /\ prior = [files |-> <<>>, absolute |-> "unset"]
    /\ edits = 0
    /\ called = NoCall

\* no archive is written or read
ArchiveIdle ==
    /\ apc = "idle" /\ tar = <<>> /\ anames = {} /\ backup = <<>>
    /\ readManifest = [files |-> <<>>, absolute |-> "unset"]
    /\ readExtra = <<>>

\* get_package is not called
IndexIdle ==
    /\ package_index = <<>> /\ indexer = "None" /\ listing = <<>>
    /\ eventsSet = {} /\ lookups = <<>>

(***************************************************************************)
(* find_matches: the calls the model makes                                 *)
(***************************************************************************)

\* MATCH_CONCURRENCY_MAX, as the environment sets it
MaxConcurrency == 1

BasicDirectoryAt(path) == NewHandler("basic-directory", path, <<>>, <<>>)

\* the add_file calls that built the manifest before find_matches is called
MatchManifests == {
    <<>>,
    << <<P_d, None>>, <<P_f, None>> >>,
    << <<P_tmp, None>>, <<P_tmpx, None>> >>,
    << <<<<"d">>, None>>, <<<<"d", "/", "f">>, None>> >>,
    << <<P_d, BasicDirectoryAt(P_d)>>, <<P_f, None>> >>,
    << <<P_r, None>>, <<P_ra, None>> >>,
    << <<P_f, None>> >>,
    << <<P_root, None>>, <<P_tmp, None>> >>,
    \* a binding another handler of the list would replace
    << <<P_tmp, BasicDirectoryAt(P_tmp)>>, <<P_tmpx, None>> >> }

\* add_root: <<>> for None, <<path>> otherwise
AddRoots == {<<>>, <<P_tmp>>, <<P_d>>, <<<<"d">>>>}

HandlerLists == {DEFAULT_HANDLERS, U_DEFAULT_HANDLERS}

Configs ==
    [handlers : HandlerLists, overwrite : BOOLEAN, add_root : AddRoots,
     follow_symlinks : {FALSE}, confirm : BOOLEAN, gitbad : BOOLEAN]

\* a list of the elements of a set, in dict order (some order)
ListOf(S) ==
    CHOOSE l \in [1..Cardinality(S) -> S] :
        \A i, j \in 1..Cardinality(S) : i # j => l[i] # l[j]

NewTask(initial) ==
    [pc |-> "spawned", initial |-> initial, rdy |-> "-", idx |-> 0,
     cand |-> None, added |-> FALSE, err |-> "-"]

MatchInit ==
    /\ \E adds \in MatchManifests :
          LET m == AddAll(EmptyManifest, adds)
          IN  files = m.files /\ absolute = m.absolute
    /\ cfg \in Configs
    /\ mainpc = "call"
    /\ unmatched = <<>> /\ unadded = <<>>
    /\ readyKeys = {} /\ isSet = {} /\ readyIsList = FALSE /\ waited = {}
    /\ sem = MaxConcurrency /\ done = 0 /\ progress = <<>>
    /\ task = <<>> /\ running = <<>>
    /\ invoked = {} /\ stopped = FALSE /\ lateStart = {}
    /\ matcherAdded = {}
    /\ RestorerIdle
    /\ DumperIdle
    /\ ArchiveIdle
    /\ IndexIdle

\* the part of find_matches after unmatched and unadded are built: one Event
\* per path, one greenlet per path, then gevent.wait unless all is matched
FindMatchesSpawn(um, ua0, keys) ==
    /\ unmatched' = um
    /\ unadded' = ua0
    /\ readyKeys' = keys
    /\ task' = [q \in keys |-> NewTask(TRUE)]
    /\ waited' = keys
    /\ mainpc' = IF keys = {} THEN "returned" ELSE "waiting"
    \* progress_callback(0, len(unmatched)), and the call before the return
    /\ progress' = <<IF keys = {} THEN Len(um) ELSE 0, Len(um)>>

FindMatchesLists(um, ua0) ==
    FindMatchesSpawn(um \o ua0, ua0,
                     {um[i] : i \in 1..Len(um)} \cup {ua0[i] : i \in 1..Len(ua0)})

\* unadded as find_matches sets it from add_root (already normalised)
UnaddedOf(root) ==
    IF root \in DOMAIN files THEN <<>> ELSE <<root>>

\* a find_matches that takes every entry (not what the code does)
ToMatchAny(handler) == TRUE

\* the entries find_matches puts in unmatched: overwrite or not handler
ToMatch(handler) == cfg.overwrite \/ handler = None

\* find_matches up to its first gevent.wait, or to its return when there is
\* nothing to match
FindMatchesCall ==
    /\ mainpc = "call"
    /\ FindMatchesLists(
           ListOf({q \in DOMAIN files : ToMatch(files[q])}),
           IF cfg.add_root = <<>> THEN <<>>
           ELSE UnaddedOf(normpath(cfg.add_root[1])))
    /\ UNCHANGED <<manifestVars, cfg, isSet, readyIsList, sem, done, running,
                   invoked, stopped, lateStart, matcherAdded, NotMatcher>>

Hub == running = <<>> /\ mainpc # "call"
Runs(q) == running = <<q>>

SetTask(q, t) == task' = [task EXCEPT ![q] = t]

\* pool.spawn queues the start of a greenlet; the hub runs what is queued in
\* order, so greenlets start in the order they were spawned (the order of
\* unmatched) ...
StartsInOrder(q) ==
    \A i, j \in 1..Len(unmatched) :
        (unmatched[i] \in DOMAIN task /\ task[unmatched[i]].pc = "spawned"
         /\ unmatched[j] = q) => j <= i

\* ... and the greenlets find_matches spawned itself have all started before
\* anything that was blocked is switched to again
AllInitialStarted ==
    \A q \in DOMAIN task : task[q].initial => task[q].pc # "spawned"

\* The hub switches to a greenlet that was spawned and has not run.  A
\* greenlet spawned by another one starts after the caller of gevent.wait
\* has been woken by the Event that greenlet had set before.
HubStart(q) ==
    /\ Hub /\ q \in DOMAIN task /\ task[q].pc = "spawned"
    /\ StartsInOrder(q)
    /\ task[q].initial \/ mainpc # "waiting"
    /\ running' = <<q>>
    /\ SetTask(q, [task[q] EXCEPT !.pc = "begin"])
    /\ lateStart' = IF stopped THEN lateStart \cup {q} ELSE lateStart
    /\ UNCHANGED <<manifestVars, cfg, mainpc, unmatched, unadded, readyKeys,
                   isSet, readyIsList, waited, sem, done, progress, invoked, stopped,
                   matcherAdded, NotMatcher>>

RemoveFirst(l, x) ==
    LET i == CHOOSE k \in 1..Len(l) : l[k] = x /\ \A j \in 1..(k - 1) : l[j] # x
    IN  SubSeq(l, 1, i - 1) \o SubSeq(l, i + 1, Len(l))

InList(l, x) == \E i \in 1..Len(l) : l[i] = x

\* whether find_match waits for the parent: _ready and parent in _ready
WaitsForParent(rdy, keys, path) ==
    rdy = "dict" /\ dirname(path) \in keys

\* match_path from its add_file call on: r is what add_file gave, blocks
\* whether find_match has to wait for the Event of the parent
TaskBeginWith(q, isUnadded, r, rdy, blocks) ==
    /\ unadded' = IF isUnadded THEN RemoveFirst(unadded, q) ELSE unadded
    /\ IF isUnadded /\ r.raised
       THEN /\ UNCHANGED <<files, absolute, matcherAdded>>
            /\ SetTask(q, [task[q] EXCEPT !.pc = "dead",
                                          !.err = "RuntimeError"])
            /\ running' = <<>>
       ELSE /\ files' = IF isUnadded THEN r.files ELSE files
            /\ absolute' = IF isUnadded THEN r.absolute ELSE absolute
            /\ matcherAdded' =
                   IF isUnadded
                   THEN matcherAdded \cup {r.ret[i] : i \in 1..Len(r.ret)}
                   ELSE matcherAdded
            /\ SetTask(q, [task[q] EXCEPT
                   !.added = isUnadded /\ Len(r.ret) > 0,
                   !.rdy = rdy,
                   !.pc = IF blocks THEN "waitparent" ELSE "acquire"])
            /\ running' = IF blocks THEN <<>> ELSE <<q>>

\* a find_match that takes the semaphore before it waits for the parent
\* (not what the code does)
TokenBeforeParentWait(q) == sem' = sem - 1

\* find_match as far as the parent wait: the semaphore is not touched
ParentWaitFirst(q) == UNCHANGED sem

\* match_path up to the parent wait of find_match
TaskBegin(q) ==
    /\ Runs(q) /\ task[q].pc = "begin"
    /\ TaskBeginWith(q, InList(unadded, q),
                     add_file([files |-> files, absolute |-> absolute], q, None,
                              FALSE, cfg.follow_symlinks, RecursionLimit),
                     IF readyIsList THEN "list" ELSE "dict",
                     WaitsForParent(IF readyIsList THEN "list" ELSE "dict",
                                    readyKeys, q)
                        /\ dirname(q) \notin isSet)
    /\ ParentWaitFirst(q)
    /\ UNCHANGED <<cfg, mainpc, unmatched, readyKeys, isSet, readyIsList,
                   waited, done, progress, invoked, stopped, lateStart, NotMatcher>>

\* _ready[parent].wait() returns
HubParentReady(q) ==
    /\ Hub /\ q \in DOMAIN task /\ task[q].pc = "waitparent"
    /\ AllInitialStarted
    /\ dirname(q) \in isSet
    /\ running' = <<q>>
    /\ SetTask(q, [task[q] EXCEPT !.pc = "acquire"])
    /\ UNCHANGED <<manifestVars, cfg, mainpc, unmatched, unadded, readyKeys,
                   isSet, readyIsList, waited, sem, done, progress, invoked, stopped,
                   lateStart, matcherAdded, NotMatcher>>

\* a gate that lets every greenlet in (not what the code does)
TaskAcquireUncounted(q) ==
    /\ Runs(q) /\ task[q].pc = "acquire"
    /\ sem' = sem - 1
    /\ SetTask(q, [task[q] EXCEPT !.pc = "loop", !.idx = 1])
    /\ UNCHANGED <<manifestVars, cfg, mainpc, unmatched, unadded, readyKeys,
                   isSet, readyIsList, waited, done, progress, invoked, stopped,
                   lateStart, matcherAdded, running, NotMatcher>>

\* with _lock: the semaphore is taken at once when its counter is positive
TaskAcquire(q) ==
    /\ Runs(q) /\ task[q].pc = "acquire"
    /\ IF sem > 0
       THEN /\ sem' = sem - 1
            /\ SetTask(q, [task[q] EXCEPT !.pc = "loop", !.idx = 1])
            /\ UNCHANGED running
       ELSE /\ SetTask(q, [task[q] EXCEPT !.pc = "waitsem"])
            /\ running' = <<>>
            /\ UNCHANGED sem
    /\ UNCHANGED <<manifestVars, cfg, mainpc, unmatched, unadded, readyKeys,
                   isSet, readyIsList, waited, done, progress, invoked, stopped,
                   lateStart, matcherAdded, NotMatcher>>

\* a greenlet blocked in with _lock gets the semaphore
HubAcquire(q) ==
    /\ Hub /\ q \in DOMAIN task /\ task[q].pc = "waitsem"
    /\ AllInitialStarted
    /\ sem > 0
    /\ sem' = sem - 1
    /\ running' = <<q>>
    /\ SetTask(q, [task[q] EXCEPT !.pc = "loop", !.idx = 1])
    /\ UNCHANGED <<manifestVars, cfg, mainpc, unmatched, unadded, readyKeys,
                   isSet, readyIsList, waited, done, progress, invoked, stopped,
                   lateStart, matcherAdded, NotMatcher>>

\* leaving the with _lock block by the path given: the semaphore is released
LeaveLock(q, t, handler) ==
    /\ sem' = sem + 1
    /\ files' = IF handler = <<>> THEN files ELSE Put(files, q, handler[1])
    /\ SetTask(q, t)

\* what find_match does with the result r of cls.match for the class kind;
\* with a confirm callback the callback is entered
MatchOutcomeOf(q, kind, r) ==
    CASE r.m = "raise" ->
            \* the exception leaves find_match and ends the greenlet
            /\ LeaveLock(q, [task[q] EXCEPT !.pc = "dead",
                                            !.err = "ValueError"], <<>>)
            /\ running' = <<>>
      [] r.m = "None" ->
            /\ SetTask(q, [task[q] EXCEPT !.pc = "loop", !.idx = @ + 1])
            /\ running' = <<q>>
            /\ UNCHANGED <<files, sem>>
      [] r.m = "match" /\ cfg.confirm ->
            /\ SetTask(q, [task[q] EXCEPT
                   !.pc = "inconfirm",
                   !.cand = NewHandler(kind, q, r.pos, r.kw)])
            /\ running' = <<q>>
            /\ UNCHANGED <<files, sem>>
      [] r.m = "match" /\ ~cfg.confirm ->
            /\ LeaveLock(q, [task[q] EXCEPT !.pc = "setready"],
                         <<NewHandler(kind, q, r.pos, r.kw)>>)
            /\ running' = <<q>>

MatchOutcome(q, kind) ==
    MatchOutcomeOf(q, kind, KindMatch(kind, files, q, cfg.gitbad))

\* a loop that goes through the list from its end (not what the code does)
HandlerAtReversed(i) == cfg.handlers[Len(cfg.handlers) + 1 - i]

\* for cls in handlers: the class the loop is at in its i-th round
HandlerAt(i) == cfg.handlers[i]

\* for cls in handlers: match = cls.match(self, path); the match of a kind
\* that runs a subprocess or asks the package index is entered
TaskLoop(q) ==
    /\ Runs(q) /\ task[q].pc = "loop"
    /\ IF task[q].idx > Len(cfg.handlers)
       THEN /\ LeaveLock(q, [task[q] EXCEPT !.pc = "setready"], <<>>)
            /\ UNCHANGED <<running, invoked>>
       ELSE /\ invoked' = invoked \cup {q}
            /\ IF HandlerAt(task[q].idx) \in MatchYields
               THEN /\ SetTask(q, [task[q] EXCEPT !.pc = "inmatch"])
                    /\ UNCHANGED <<files, sem, running>>
               ELSE MatchOutcome(q, HandlerAt(task[q].idx))
    /\ UNCHANGED <<absolute, cfg, mainpc, unmatched, unadded, readyKeys,
                   isSet, readyIsList, waited, done, progress, stopped, lateStart,
                   matcherAdded, NotMatcher>>

\* a match or a confirm callback that is running blocks (on a subprocess,
\* the package index, the terminal) and the hub takes over
TaskYield(q) ==
    /\ Runs(q) /\ task[q].pc \in {"inmatch", "inconfirm"}
    /\ SetTask(q, [task[q] EXCEPT
           !.pc = IF @ = "inmatch" THEN "matchwait" ELSE "confirmwait"])
    /\ running' = <<>>
    /\ UNCHANGED <<manifestVars, cfg, mainpc, unmatched, unadded, readyKeys,
                   isSet, readyIsList, waited, sem, done, progress, invoked, stopped,
                   lateStart, matcherAdded, NotMatcher>>

\* what it blocked on has arrived
HubResume(q) ==
    /\ Hub /\ q \in DOMAIN task /\ task[q].pc \in {"matchwait", "confirmwait"}
    /\ AllInitialStarted
    /\ SetTask(q, [task[q] EXCEPT
           !.pc = IF @ = "matchwait" THEN "matchret" ELSE "confirmret"])
    /\ running' = <<q>>
    /\ UNCHANGED <<manifestVars, cfg, mainpc, unmatched, unadded, readyKeys,
                   isSet, readyIsList, waited, sem, done, progress, invoked, stopped,
                   lateStart, matcherAdded, NotMatcher>>

\* the match returns (or raises)
TaskMatchReturn(q) ==
    /\ Runs(q) /\ task[q].pc \in {"inmatch", "matchret"}
    /\ MatchOutcome(q, HandlerAt(task[q].idx))
    /\ UNCHANGED <<absolute, cfg, mainpc, unmatched, unadded, readyKeys,
                   isSet, readyIsList, waited, done, progress, invoked, stopped,
                   lateStart, matcherAdded, NotMatcher>>

\* what a confirm callback may do: return the handler, return another one
\* (IgnoreHandler), return None, or raise StopMatching
ConfirmChoices == {"same", "ignore", "none", "stop"}

\* the handler a confirm callback returns
Confirmed(q, choice) ==
    CASE choice = "same"   -> task[q].cand
      [] choice = "ignore" -> NewHandler("ignore", q, <<>>, <<>>)
      [] choice = "none"   -> None

\* the confirm callback returns (or raises StopMatching, which leaves
\* find_match and ends the greenlet)
TaskConfirmReturn(q, choice) ==
    /\ Runs(q) /\ task[q].pc \in {"inconfirm", "confirmret"}
    /\ IF choice = "stop"
       THEN /\ LeaveLock(q, [task[q] EXCEPT !.pc = "dead",
                                            !.err = "StopMatching"], <<>>)
            /\ stopped' = TRUE
            /\ running' = <<>>
       ELSE /\ LeaveLock(q, [task[q] EXCEPT !.pc = "setready"],
                         <<Confirmed(q, choice)>>)
            /\ UNCHANGED <<stopped, running>>
    /\ UNCHANGED <<absolute, cfg, mainpc, unmatched, unadded, readyKeys,
                   isSet, readyIsList, waited, done, progress, invoked, lateStart,
                   matcherAdded, NotMatcher>>

\* if _ready: _ready[path].set()
TaskSetReady(q) ==
    /\ Runs(q) /\ task[q].pc = "setready"
    /\ IF task[q].rdy = "dict"
       THEN /\ isSet' = isSet \cup {q}
            /\ SetTask(q, [task[q] EXCEPT !.pc = "expand"])
            /\ UNCHANGED running
       ELSE \* a list is indexed by a path: TypeError
            /\ SetTask(q, [task[q] EXCEPT !.pc = "dead", !.err = "TypeError"])
            /\ running' = <<>>
            /\ UNCHANGED isSet
    /\ UNCHANGED <<manifestVars, cfg, mainpc, unmatched, unadded, readyKeys,
                   readyIsList, waited, sem, done, progress, invoked, stopped,
                   lateStart, matcherAdded, NotMatcher>>

\* the names of the fixture in the order sorted() gives them
SortedNames == <<"a", "c1", "c2", "d", "f", "l", "lt", "r", "tmp", "w", "x">>
Rank(name) == CHOOSE i \in 1..Len(SortedNames) : SortedNames[i] = name[1]

\* sorted(os.listdir(path)) as a list
RECURSIVE SortedList(_)
SortedList(names) ==
    IF names = {} THEN <<>>
    ELSE LET n == CHOOSE x \in names : \A y \in names : Rank(x) <= Rank(y)
         IN  <<n>> \o SortedList(names \ {n})

\* the sub paths match_path appends for path: those in neither self.files
\* nor unadded
SubPathsOf(path, names) ==
    SelectSeq([i \in 1..Len(names) |-> normpath(join(path, names[i]))],
              LAMBDA sp : sp \notin DOMAIN files /\ ~InList(unadded, sp))

NewSubPaths(path) == SubPathsOf(path, SortedList(listdir(path)))

\* the test with its sense turned round (not what the code does)
RestoresContentsTestFlipped(path) ==
    IF path \notin DOMAIN files THEN "go on"
    ELSE IF files[path] = None THEN "AttributeError"
    ELSE IF files[path].name \in HasRestoresContents THEN "go on"
    ELSE "AttributeError"

\* self.files[path].restores_contents, guarded by path in self.files:
\* "skip", "go on" or the AttributeError of a handler (or None) that has no
\* such attribute
RestoresContentsTest(path) ==
    IF path \notin DOMAIN files THEN "go on"
    ELSE IF files[path] = None THEN "AttributeError"
    ELSE IF files[path].name \in HasRestoresContents THEN "skip"
    ELSE "AttributeError"

\* the loop of match_path over added_paths, test being what the test of
\* restores_contents gave and subs the sub paths to append
TaskExpandWith(q, test, subs, kids) ==
    IF test = "AttributeError"
    THEN /\ SetTask(q, [task[q] EXCEPT !.pc = "dead",
                                       !.err = "AttributeError"])
         /\ running' = <<>>
         /\ UNCHANGED <<unmatched, unadded, readyKeys>>
    ELSE IF subs # <<>> /\ readyIsList
    THEN \* ready[sub_path] = Event() on a list: TypeError
         /\ unmatched' = Append(unmatched, subs[1])
         /\ unadded' = Append(unadded, subs[1])
         /\ SetTask(q, [task[q] EXCEPT !.pc = "dead", !.err = "TypeError"])
         /\ running' = <<>>
         /\ UNCHANGED readyKeys
    ELSE /\ unmatched' = unmatched \o subs
         /\ unadded' = unadded \o subs
         /\ readyKeys' = readyKeys \cup kids
         /\ task' = [x \in DOMAIN task \cup kids |->
                        IF x = q THEN [task[q] EXCEPT !.pc = "progress"]
                        ELSE IF x \in kids THEN NewTask(FALSE)
                        ELSE task[x]]
         /\ UNCHANGED running

TaskExpandTest(q, test, subs) ==
    TaskExpandWith(q, test, subs, {subs[i] : i \in 1..Len(subs)})

\* whether the loop body goes past its two continue statements
Expands(q, test) == test = "go on" /\ isdir(q)

TaskExpandOn(q, test) ==
    TaskExpandTest(q, test, IF Expands(q, test) THEN NewSubPaths(q) ELSE <<>>)

TaskExpand(q) ==
    /\ Runs(q) /\ task[q].pc = "expand"
    /\ TaskExpandOn(q, IF task[q].added THEN RestoresContentsTest(q)
                       ELSE "skip")
    /\ UNCHANGED <<manifestVars, cfg, mainpc, isSet, readyIsList, waited,
                   sem, done, progress, invoked, stopped, lateStart, matcherAdded,
                   NotMatcher>>

\* the greenlets inside `with callback_lock`: the callback, once called,
\* does not yield the lock before it returns
InCallback == {"callbackwait"}

\* callback_lock is owned by a greenlet
CallbackLocked == \E x \in DOMAIN task : task[x].pc \in InCallback

\* a callback_lock that lets every greenlet in (not what the code does)
CallbackLockFreeAlways(q) == TRUE

\* callback_lock.acquire() of the greenlet of q does not block
CallbackLockFree(q) == ~CallbackLocked

\* progress_callback(done[0], len(unmatched)) with the count as it is when
\* the call is made: the callback suspends, or it returns, the lock is
\* released and match_path ends
CallbackCalled(q, count, suspends) ==
    /\ progress' = <<count, Len(unmatched)>>
    /\ SetTask(q, [task[q] EXCEPT !.pc = IF suspends THEN "callbackwait"
                                         ELSE "finished"])

\* done[0] += 1, then `with callback_lock`: the call of the progress
\* callback, or the wait for the lock
TaskProgress(q, suspends) ==
    /\ Runs(q) /\ task[q].pc = "progress"
    /\ done' = done + 1
    /\ IF CallbackLockFree(q)
       THEN CallbackCalled(q, done + 1, suspends)
       ELSE /\ SetTask(q, [task[q] EXCEPT !.pc = "waitlock"])
            /\ UNCHANGED progress
    /\ running' = <<>>
    /\ UNCHANGED <<manifestVars, cfg, mainpc, unmatched, unadded, readyKeys,
                   isSet, readyIsList, waited, sem, invoked, stopped,
                   lateStart, matcherAdded, NotMatcher>>

\* the lock is released: a greenlet that waited for it calls the callback
HubCallbackLock(q, suspends) ==
    /\ Hub /\ task[q].pc = "waitlock"
    /\ CallbackLockFree(q)
    /\ CallbackCalled(q, done, suspends)
    /\ UNCHANGED <<manifestVars, cfg, mainpc, unmatched, unadded, readyKeys,
                   isSet, readyIsList, waited, sem, done, running, invoked,
                   stopped, lateStart, matcherAdded, NotMatcher>>

\* the suspended callback goes on and returns, the lock is released and
\* match_path ends
HubCallbackResume(q) ==
    /\ Hub /\ task[q].pc = "callbackwait"
    /\ SetTask(q, [task[q] EXCEPT !.pc = "finished"])
    /\ UNCHANGED <<manifestVars, cfg, mainpc, unmatched, unadded, readyKeys,
                   isSet, readyIsList, waited, sem, done, progress, running,
                   invoked, stopped, lateStart, matcherAdded, NotMatcher>>

\* gevent.wait(unready, count=1) returns the Events that are set: the name
\* ready is rebound to that list, and g.get() on an Event is an
\* AttributeError, which leaves find_matches
MainWake ==
    /\ Hub /\ mainpc = "waiting"
    /\ waited \cap isSet # {}
    /\ AllInitialStarted
    /\ readyIsList' = TRUE
    /\ mainpc' = "AttributeError"
    /\ UNCHANGED <<manifestVars, cfg, unmatched, unadded, readyKeys, isSet,
                   waited, sem, done, progress, task, running, invoked, stopped,
                   lateStart, matcherAdded, NotMatcher>>

\* a greenlet the hub can still switch to
Runnable(q) ==
    \/ task[q].pc \in {"spawned", "matchwait", "confirmwait", "callbackwait"}
    \/ task[q].pc = "waitparent" /\ dirname(q) \in isSet
    \/ task[q].pc = "waitsem" /\ sem > 0
    \/ task[q].pc = "waitlock" /\ CallbackLockFree(q)

\* nothing is left to run and no Event the caller waits for is set: the hub
\* raises LoopExit in the caller (this operation would block forever)
MainLoopExit ==
    /\ Hub /\ mainpc = "waiting"
    /\ waited \cap isSet = {}
    /\ \A q \in DOMAIN task : ~Runnable(q)
    /\ mainpc' = "LoopExit"
    /\ UNCHANGED <<manifestVars, cfg, unmatched, unadded, readyKeys, isSet,
                   readyIsList, waited, sem, done, progress, task, running, invoked,
                   stopped, lateStart, matcherAdded, NotMatcher>>

\* every path that may get a greenlet
MatchPaths ==
    DOMAIN task

MatchNext ==
    \/ FindMatchesCall
    \/ MainWake
    \/ MainLoopExit
    \/ \E q \in MatchPaths : HubStart(q)
    \/ \E q \in MatchPaths : TaskBegin(q)
    \/ \E q \in MatchPaths : HubParentReady(q)
    \/ \E q \in MatchPaths : TaskAcquire(q)
    \/ \E q \in MatchPaths : HubAcquire(q)
    \/ \E q \in MatchPaths : TaskLoop(q)
    \/ \E q \in MatchPaths : TaskYield(q)
    \/ \E q \in MatchPaths : HubResume(q)
    \/ \E q \in MatchPaths : TaskMatchReturn(q)
    \/ \E q \in MatchPaths, choice \in ConfirmChoices :
           TaskConfirmReturn(q, choice)
    \/ \E q \in MatchPaths : TaskSetReady(q)
    \/ \E q \in MatchPaths : TaskExpand(q)
    \/ \E q \in MatchPaths, suspends \in BOOLEAN : TaskProgress(q, suspends)
    \/ \E q \in MatchPaths, suspends \in BOOLEAN :
           HubCallbackLock(q, suspends)
    \/ \E q \in MatchPaths : HubCallbackResume(q)

SpecMatch == MatchInit /\ [][MatchNext]_vars

(***************************************************************************)
(* restore_all: check_cycles, then one wait_and_restore greenlet per path  *)
(***************************************************************************)

\* GitCloneHandler.remote_is_local: file:// or a '/' before the first ':'
remote_is_local(remote) ==
    \/ StartsWith(remote, "file://")
    \/ \E i \in 1..Len(SplitOn(remote, ":")[1]) : SplitOn(remote, ":")[1][i] = "/"

\* the path GitCloneHandler.get_depends adds for a local remote
LocalRemotePath(remote) ==
    IF StartsWith(remote, "file://") THEN Tail(remote) ELSE remote

\* handler.get_depends(): the parent directory, and what the class adds
get_depends(handler) ==
    {dirname(handler.filepath)} \cup
    CASE handler.name = "git-content" -> {handler.pos[1].s}
      [] handler.name = "git-clone" /\ remote_is_local(handler.pos[1].s) ->
             {LocalRemotePath(handler.pos[1].s)}
      [] OTHER -> {}

\* the normalised dependencies, as check_cycles and wait_and_restore use them
NormDepends(handler) == {normpath(d) : d \in get_depends(handler)}

ValueError(chain) == [kind |-> "ValueError", chain |-> chain]
AttributeError    == [kind |-> "AttributeError", chain |-> <<>>]

\* check_cycles(path, chain): the exceptions it can end with, over the
\* orders a set of dependencies can be gone through in; none when it returns
RECURSIVE check_cycles(_, _, _)
check_cycles(fs, path, chain) ==
    IF path \notin DOMAIN fs THEN {}
    ELSE IF InList(chain, path) THEN {ValueError(Append(chain, path))}
    ELSE IF fs[path] = None THEN {AttributeError}
    ELSE UNION {check_cycles(fs, d, Append(chain, path)) :
                   d \in NormDepends(fs[path])}

\* check_cycles(): from every path, in dict order
check_cycles_all(fs) == UNION {check_cycles(fs, q, <<>>) : q \in DOMAIN fs}

WaitFor(q) == [kind |-> "wait", path |-> q]
NoWait     == [kind |-> "none", path |-> <<>>]
Loops      == [kind |-> "loops", path |-> <<>>]

\* the walk up the parents of a dependency that is not in restored: the
\* ancestor to wait for, none when '/' or '.' is reached without one; the
\* loop does not end when dirname stops changing before that
RECURSIVE WalkUp(_)
WalkUp(dependency_parent) ==
    IF dependency_parent \in {<<"/">>, <<".">>} THEN NoWait
    ELSE IF dirname(dependency_parent) \in DOMAIN files
    THEN WaitFor(dirname(dependency_parent))
    ELSE IF dirname(dependency_parent) = dependency_parent THEN Loops
    ELSE WalkUp(dirname(dependency_parent))

\* a greenlet that never waits (not what the code does)
WaitTargetNever(dependency) == NoWait

\* what wait_and_restore does on behalf of a dependency
WaitTarget(dependency) ==
    IF dependency \in DOMAIN files THEN WaitFor(dependency)
    ELSE WalkUp(dependency)

NewRTask == [pc |-> "spawned", deps |-> <<>>, err |-> "-"]

\* the manifests restore_all is called on
RestoreManifests == {
    \* a chain whose restores can succeed
    << <<P_r, NewHandler("pacman", P_r, <<StrVal(<<"pkg">>)>>, <<>>)>>,
       <<P_ra, NewHandler("git-content", P_ra, <<StrVal(P_r)>>, <<>>)>> >>,
    \* two clones of one another
    << <<P_r, NewHandler("git-clone", P_r, <<StrVal(P_d)>>, <<>>)>>,
       <<P_d, NewHandler("git-clone", P_d, <<StrVal(P_r)>>, <<>>)>> >>,
    \* the same with their unbound parent
    << <<P_w, None>>,
       <<P_r, NewHandler("git-clone", P_r, <<StrVal(P_d)>>, <<>>)>>,
       <<P_d, NewHandler("git-clone", P_d, <<StrVal(P_r)>>, <<>>)>> >>,
    << <<P_d, NewHandler("basic-directory", P_d, <<>>, <<>>)>>,
       <<P_f, NewHandler("basic-file", P_f, <<>>, <<>>)>> >>,
    << <<P_tmp, NewHandler("ignore", P_tmp, <<>>, <<>>)>>,
       <<P_tmpx, NewHandler("parent", P_tmpx, <<>>, <<>>)>> >>,
    \* relative keys, the parent of the parent not in the manifest
    << <<<<"d", "/", "f">>,
         NewHandler("symbolic-link", <<"d", "/", "f">>, <<>>, <<>>)>> >>,
    << <<P_root, NewHandler("basic-directory", P_root, <<>>, <<>>)>> >>,
    << <<P_w, NewHandler("pacman", P_w, <<StrVal(<<"pkg">>)>>, <<>>)>>,
       <<P_l, NewHandler("symbolic-link", P_l, <<>>, <<>>)>>,
       <<P_r, NewHandler("pacman", P_r, <<StrVal(<<"pkg">>)>>, <<>>)>>,
       <<P_ra, NewHandler("git-content", P_ra, <<StrVal(P_r)>>, <<>>)>> >>,
    << <<P_d, None>>,
       <<P_r, NewHandler("pacman", P_r, <<StrVal(<<"pkg">>)>>, <<>>)>> >>,
    \* a path whose parent is not in the manifest, the parent of that is
    << <<P_w, NewHandler("pacman", P_w, <<StrVal(<<"pkg">>)>>, <<>>)>>,
       <<P_ra, NewHandler("git-content", P_ra, <<StrVal(P_r)>>, <<>>)>> >>,
    \* a chain and a path that has nothing to do with it
    << <<P_tmpx, NewHandler("symbolic-link", P_tmpx, <<>>, <<>>)>>,
       <<P_r, NewHandler("pacman", P_r, <<StrVal(<<"pkg">>)>>, <<>>)>>,
       <<P_ra, NewHandler("git-content", P_ra, <<StrVal(P_r)>>, <<>>)>> >>,
    \* a clone of a repository inside a clone of the first, and a path that
    \* has nothing to do with them
    << <<P_tmpx, NewHandler("symbolic-link", P_tmpx, <<>>, <<>>)>>,
       <<P_r, NewHandler("git-clone", P_r, <<StrVal(P_d)>>, <<>>)>>,
       <<P_d, NewHandler("git-clone", P_d, <<StrVal(P_ra)>>, <<>>)>> >> }

\* find_matches is not called
MatcherIdle ==
    /\ cfg = [handlers |-> DEFAULT_HANDLERS, overwrite |-> FALSE,
              add_root |-> <<>>, follow_symlinks |-> FALSE,
              confirm |-> FALSE, gitbad |-> FALSE]
    /\ mainpc = "idle"
    /\ unmatched = <<>> /\ unadded = <<>>
    /\ readyKeys = {} /\ isSet = {} /\ readyIsList = FALSE /\ waited = {}
    /\ sem = MaxConcurrency /\ done = 0 /\ progress = <<>>
    /\ task = <<>> /\ running = <<>>
    /\ invoked = {} /\ stopped = FALSE /\ lateStart = {}
    /\ matcherAdded = {}

ManifestOf(m) == files = m.files /\ absolute = m.absolute

RestoreInit ==
    /\ \E adds \in RestoreManifests : ManifestOf(AddAll(EmptyManifest, adds))
    /\ MatcherIdle
    /\ DumperIdle
    /\ ArchiveIdle
    /\ IndexIdle
    /\ rpc = "call" /\ rchain = <<>> /\ rtask = <<>> /\ rset = {}
    /\ rrun = <<>>

\* restore_all up to gtools.gmap: check_cycles raises ex, or the greenlets
\* are spawned
RestoreAllWith(exceptions) ==
    IF exceptions = {}
    THEN /\ rpc' = "gmap"
         /\ rtask' = [p \in DOMAIN files |-> NewRTask]
         /\ UNCHANGED rchain
    ELSE /\ \E ex \in exceptions : rpc' = ex.kind /\ rchain' = ex.chain
         /\ UNCHANGED rtask

RestoreAllCall ==
    /\ rpc = "call"
    /\ RestoreAllWith(check_cycles_all(files))
    /\ UNCHANGED <<manifestVars, rset, rrun, NotRestorer>>

RHub == rrun = <<>> /\ rpc # "call"
RRuns(p) == rrun = <<p>>
SetRTask(p, t) == rtask' = [rtask EXCEPT ![p] = t]

AllRStarted == \A p \in DOMAIN rtask : rtask[p].pc # "spawned"

\* the hub switches to a greenlet gmap spawned
HubRStart(p) ==
    /\ RHub /\ p \in DOMAIN rtask /\ rtask[p].pc = "spawned"
    /\ rrun' = <<p>>
    /\ SetRTask(p, [rtask[p] EXCEPT !.pc = "begin"])
    /\ UNCHANGED <<manifestVars, rpc, rchain, rset, NotRestorer>>

\* the lists a set can be gone through as
OrdersOf(S) ==
    {l \in [1..Cardinality(S) -> S] :
        \A i, j \in 1..Cardinality(S) : i # j => l[i] # l[j]}

\* wait_and_restore to its loop over handler.get_depends(); for an unbound
\* path it returns at once, without setting the Event
RBegin(p) ==
    /\ RRuns(p) /\ rtask[p].pc = "begin"
    /\ IF files[p] = None
       THEN /\ SetRTask(p, [rtask[p] EXCEPT !.pc = "returned"])
            /\ rrun' = <<>>
       ELSE /\ \E l \in OrdersOf(NormDepends(files[p])) :
                  SetRTask(p, [rtask[p] EXCEPT !.pc = "deps", !.deps = l])
            /\ UNCHANGED rrun
    /\ UNCHANGED <<manifestVars, rpc, rchain, rset, NotRestorer>>

\* one round of the loop over the dependencies, target being what there is
\* to wait for
RDepOn(p, target) ==
    CASE target.kind = "loops" ->
            \* the while loop never ends and never yields
            /\ SetRTask(p, [rtask[p] EXCEPT !.pc = "spinning"])
            /\ UNCHANGED rrun
      [] target.kind = "wait" /\ target.path \notin rset ->
            /\ SetRTask(p, [rtask[p] EXCEPT !.pc = "waitdep"])
            /\ rrun' = <<>>
      [] OTHER ->
            /\ SetRTask(p, [rtask[p] EXCEPT !.deps = Tail(@)])
            /\ UNCHANGED rrun

RDep(p) ==
    /\ RRuns(p) /\ rtask[p].pc = "deps"
    /\ IF rtask[p].deps = <<>>
       THEN /\ SetRTask(p, [rtask[p] EXCEPT !.pc = "restore"])
            /\ UNCHANGED rrun
       ELSE RDepOn(p, WaitTarget(rtask[p].deps[1]))
    /\ UNCHANGED <<manifestVars, rpc, rchain, rset, NotRestorer>>

\* restored[...].wait() returns
HubRDepReady(p) ==
    /\ RHub /\ p \in DOMAIN rtask /\ rtask[p].pc = "waitdep"
    /\ AllRStarted
    /\ WaitTarget(rtask[p].deps[1]).path \in rset
    /\ SetRTask(p, [rtask[p] EXCEPT !.pc = "deps", !.deps = Tail(@)])
    /\ rrun' = <<p>>
    /\ UNCHANGED <<manifestVars, rpc, rchain, rset, NotRestorer>>

\* the classes whose restore takes no extra_data: the call
\* handler.restore(extra_data) is a TypeError
RestoreTakesNoData == {"parent", "ignore"}

\* the classes whose restore runs a subprocess
RestoreBlocks == {"pacman", "git-clone", "git-bundle"}

\* SavesFileInfo: restore ends in os.chmod(filepath, extra_data['mode'])
\* with the text an Archive gives for the mode, a TypeError
SavesFileInfo == {"basic-directory", "basic-file", "git-clone", "git-bundle"}

\* how handler.restore(extra_data) can end for the class
RestoreOutcomes(kind) ==
    IF kind \in RestoreTakesNoData \cup SavesFileInfo THEN {"raise"}
    ELSE IF kind = "git-content" THEN {"ok"}
    ELSE {"ok", "raise"}

\* self.restore(archive, path) is called
RRestore(p) ==
    /\ RRuns(p) /\ rtask[p].pc = "restore"
    /\ SetRTask(p, [rtask[p] EXCEPT !.pc = "inrestore"])
    /\ UNCHANGED <<manifestVars, rpc, rchain, rset, rrun, NotRestorer>>

\* the restore blocks on its subprocess
RYield(p) ==
    /\ RRuns(p) /\ rtask[p].pc = "inrestore"
    /\ files[p].name \in RestoreBlocks
    /\ SetRTask(p, [rtask[p] EXCEPT !.pc = "restorewait"])
    /\ rrun' = <<>>
    /\ UNCHANGED <<manifestVars, rpc, rchain, rset, NotRestorer>>

HubRResume(p) ==
    /\ RHub /\ p \in DOMAIN rtask /\ rtask[p].pc = "restorewait"
    /\ AllRStarted
    /\ SetRTask(p, [rtask[p] EXCEPT !.pc = "restoreret"])
    /\ rrun' = <<p>>
    /\ UNCHANGED <<manifestVars, rpc, rchain, rset, NotRestorer>>

\* the restore returns, and restored[path].set(), or it raises
RRestoreReturn(p, outcome) ==
    /\ RRuns(p) /\ rtask[p].pc \in {"inrestore", "restoreret"}
    /\ outcome \in RestoreOutcomes(files[p].name)
    /\ IF outcome = "ok"
       THEN /\ rset' = rset \cup {p}
            /\ SetRTask(p, [rtask[p] EXCEPT !.pc = "done"])
       ELSE /\ SetRTask(p, [rtask[p] EXCEPT !.pc = "dead", !.err = "raised"])
            /\ UNCHANGED rset
    /\ rrun' = <<>>
    /\ UNCHANGED <<manifestVars, rpc, rchain, NotRestorer>>

REnded(p) == rtask[p].pc \in {"done", "dead", "returned"}

\* gmap has all its results: it returns, or passes on what a greenlet raised
RMainEnd ==
    /\ RHub /\ rpc = "gmap"
    /\ \A p \in DOMAIN rtask : REnded(p)
    /\ rpc' = IF \E p \in DOMAIN rtask : rtask[p].pc = "dead"
              THEN "raised" ELSE "returned"
    /\ UNCHANGED <<manifestVars, rchain, rtask, rset, rrun, NotRestorer>>

RRunnable(p) ==
    \/ rtask[p].pc \in {"spawned", "restorewait"}
    \/ rtask[p].pc = "waitdep" /\ WaitTarget(rtask[p].deps[1]).path \in rset

\* nothing is left to run and gmap still waits
RMainLoopExit ==
    /\ RHub /\ rpc = "gmap"
    /\ \E p \in DOMAIN rtask : ~REnded(p)
    /\ \A p \in DOMAIN rtask : ~RRunnable(p)
    /\ rpc' = "LoopExit"
    /\ UNCHANGED <<manifestVars, rchain, rtask, rset, rrun, NotRestorer>>

RestoreNext ==
    \/ RestoreAllCall
    \/ RMainEnd
    \/ RMainLoopExit
    \/ \E p \in DOMAIN rtask : HubRStart(p)
    \/ \E p \in DOMAIN rtask : RBegin(p)
    \/ \E p \in DOMAIN rtask : RDep(p)
    \/ \E p \in DOMAIN rtask : HubRDepReady(p)
    \/ \E p \in DOMAIN rtask : RRestore(p)
    \/ \E p \in DOMAIN rtask : RYield(p)
    \/ \E p \in DOMAIN rtask : HubRResume(p)
    \/ \E p \in DOMAIN rtask, outcome \in {"ok", "raise"} :
           RRestoreReturn(p, outcome)

SpecRestore == RestoreInit /\ [][RestoreNext]_vars

(***************************************************************************)
(* Manifest.dump                                                           *)
(***************************************************************************)

\* the symbols of the keys in the order of their bytes: sorted() compares
\* strings byte by byte (no atom of the fixture is a prefix of another one
\* that is followed by a different symbol)
ByteOrder ==
    <<"\t", "\n", " ", "'", ",", ".", "..", "/", "=", "\\", "a", "c1", "c2",
      "d", "f", "l", "lt", "r", "random", "tmp", "w", "x">>
ByteRank(c) == CHOOSE i \in 1..Len(ByteOrder) : ByteOrder[i] = c

\* s < t for two strings
RECURSIVE StrLess(_, _)
StrLess(s, t) ==
    IF Len(t) = 0 THEN FALSE
    ELSE IF Len(s) = 0 THEN TRUE
    ELSE IF s[1] = t[1] THEN StrLess(Tail(s), Tail(t))
    ELSE ByteRank(s[1]) < ByteRank(t[1])

\* sorted(self.files.items()): the keys in order (no two items share a key)
RECURSIVE Sorted(_)
SortedFrom(keys, k) == <<k>> \o Sorted(keys \ {k})
Sorted(keys) ==
    IF keys = {} THEN <<>>
    ELSE SortedFrom(keys, CHOOSE x \in keys :
                              \A y \in keys \ {x} : StrLess(x, y))

\* one symbol of path.encode('string-escape')
EscapeSymbol(c) ==
    CASE c = "\\" -> <<"\\", "\\">>
      [] c = "\t" -> <<"\\", "t">>
      [] c = "\n" -> <<"\\", "n">>
      [] c = "'"  -> <<"\\", "'">>
      [] OTHER    -> <<c>>

\* path.encode('string-escape')
RECURSIVE string_escape(_)
string_escape(s) ==
    IF Len(s) = 0 THEN <<>>
    ELSE EscapeSymbol(s[1]) \o string_escape(Tail(s))

\* "{}={}".format(k, v)
KeywordText(pair) == pair[1] \o <<"=">> \o str(pair[2]).s

\* map(str, args) + ["{}={}".format(k, v) for k, v in kwargs.items()]
ArgTexts(handler) ==
    [i \in 1..Len(handler.pos) |-> str(handler.pos[i]).s]
    \o [i \in 1..Len(handler.kw) |-> KeywordText(handler.kw[i])]

\* the name and argstr of an entry, with the tab between them
NameAndArgs(handler) ==
    IF handler # None
    THEN <<handler.name, "\t">> \o JoinWith(ArgTexts(handler), <<",", " ">>)
    ELSE <<"none", "\t">>

\* "{}\t{}\t{}\n".format(path.encode('string-escape'), name, argstr)
DumpLine(path, handler) ==
    string_escape(path) \o <<"\t">> \o NameAndArgs(handler) \o <<"\n">>

RECURSIVE DumpLines(_, _)
DumpLines(f, paths) ==
    IF Len(paths) = 0 THEN <<>>
    ELSE DumpLine(paths[1], f[paths[1]]) \o DumpLines(f, Tail(paths))

\* Manifest.dump
dump(f) == DumpLines(f, Sorted(DOMAIN f))

(***************************************************************************)
(* Manifest.load                                                           *)
(***************************************************************************)

\* the character a backslash escape stands for; an unknown escape is kept
UnescapeSymbol(c) ==
    CASE c = "\\" -> <<"\\">>
      [] c = "t"  -> <<"\t">>
      [] c = "n"  -> <<"\n">>
      [] c = "'"  -> <<"'">>
      [] OTHER    -> <<"\\", c>>

\* path.decode('string-escape')
RECURSIVE string_unescape(_)
string_unescape(s) ==
    IF Len(s) = 0 THEN <<>>
    ELSE IF s[1] = "\\" /\ Len(s) > 1
    THEN UnescapeSymbol(s[2]) \o string_unescape(SubSeq(s, 3, Len(s)))
    ELSE <<s[1]>> \o string_unescape(Tail(s))

\* the decoding raises ValueError (Trailing \ in string): the string ends
\* with a backslash no earlier backslash escapes
RECURSIVE TrailingBackslash(_)
TrailingBackslash(s) ==
    IF Len(s) = 0 THEN FALSE
    ELSE IF s[1] = "\\"
    THEN Len(s) = 1 \/ TrailingBackslash(SubSeq(s, 3, Len(s)))
    ELSE TrailingBackslash(Tail(s))

\* parts = list(parts) + [''] * max(3 - len(parts), 0)
PadTo3(parts) ==
    parts \o [i \in 1..(IF Len(parts) < 3 THEN 3 - Len(parts) ELSE 0) |-> <<>>]

\* kwargs[k] = v on a dict kept as a list of <<key, value>>
SetItem(kwargs, k, v) ==
    IF \E i \in 1..Len(kwargs) : kwargs[i][1] = k
    THEN [i \in 1..Len(kwargs) |->
             IF kwargs[i][1] = k THEN <<k, v>> ELSE kwargs[i]]
    ELSE Append(kwargs, <<k, v>>)

\* the assignment without the strip() calls
SetKeywordUnstripped(kwargs, kv) == SetItem(kwargs, kv[1], StrVal(kv[2]))

\* k, v = arg.split('=', 1); kwargs[k.strip()] = v.strip()
SetKeyword(kwargs, kv) == SetItem(kwargs, Strip(kv[1]), StrVal(Strip(kv[2])))

\* the loop over args of load: posargs and kwargs
RECURSIVE ParseArgs(_, _, _)
ParseArgs(args, posargs, kwargs) ==
    IF Len(args) = 0 THEN [pos |-> posargs, kw |-> kwargs]
    ELSE IF \E i \in 1..Len(args[1]) : args[1][i] = "="
    THEN ParseArgs(Tail(args), posargs,
                   SetKeyword(kwargs, SplitOnce(args[1], "=")))
    ELSE ParseArgs(Tail(args), Append(posargs, StrVal(Strip(args[1]))),
                   kwargs)

\* the names of the classes get_all_subclasses(Handler) finds
HandlerNames ==
    {"parent", "pacman", "ignore", "git-content", "git-clone", "git-bundle",
     "symbolic-link", "basic-directory", "basic-file", "example"}

\* Handler.from_name(name) raises KeyError
from_name_raises(name) == ~(Len(name) = 1 /\ name[1] \in HandlerNames)

\* a parameter of a constructor after manifest and filepath; keyword: the
\* get_args of the class returns it among the kwargs
Param(key, required, default, keyword) ==
    [key |-> key, required |-> required, default |-> default,
     keyword |-> keyword]

\* the parameters of cls.__init__ for the class named kind
Signature(kind) ==
    CASE kind = "git-content" -> <<Param(<<"repo">>, TRUE, NoneVal, FALSE)>>
      [] kind = "pacman"      -> <<Param(<<"package">>, TRUE, NoneVal, FALSE)>>
      [] kind = "example"     -> <<Param(<<"value">>, TRUE, NoneVal, FALSE)>>
      [] kind = "git-clone"   ->
             <<Param(<<"remote">>, TRUE, NoneVal, FALSE),
               Param(<<"bare">>, FALSE, BoolVal(FALSE), TRUE)>>
      [] kind = "git-bundle"  ->
             <<Param(<<"bare">>, FALSE, BoolVal(FALSE), TRUE)>>
      [] OTHER                -> <<>>

\* the call cls(manifest, path, *posargs, **kwargs) raises TypeError: too
\* many positional arguments, an unexpected keyword, a parameter given
\* twice, or a required parameter left out
CallRaises(sig, posargs, kwargs) ==
    \/ Len(posargs) > Len(sig)
    \/ \E i \in 1..Len(kwargs) :
          \A j \in 1..Len(sig) : sig[j].key # kwargs[i][1]
    \/ \E i \in 1..Len(kwargs), j \in 1..Len(sig) :
          sig[j].key = kwargs[i][1] /\ j <= Len(posargs)
    \/ \E j \in 1..Len(sig) :
          /\ sig[j].required /\ j > Len(posargs)
          /\ \A i \in 1..Len(kwargs) : kwargs[i][1] # sig[j].key

\* the value parameter j of the call is bound to
BoundValue(sig, posargs, kwargs, j) ==
    IF j <= Len(posargs) THEN posargs[j]
    ELSE IF \E i \in 1..Len(kwargs) : kwargs[i][1] = sig[j].key
    THEN kwargs[CHOOSE i \in 1..Len(kwargs) : kwargs[i][1] = sig[j].key][2]
    ELSE sig[j].default

\* get_args of the instance: the attributes the constructor stored, from
\* parameter j on
RECURSIVE get_args(_, _, _)
ArgsWith(sig, vals, j, rest) ==
    IF sig[j].keyword
    THEN [rest EXCEPT !.kw = <<<<sig[j].key, vals[j]>>>> \o @]
    ELSE [rest EXCEPT !.pos = <<vals[j]>> \o @]
get_args(sig, vals, j) ==
    IF j > Len(sig) THEN [pos |-> <<>>, kw |-> <<>>]
    ELSE ArgsWith(sig, vals, j, get_args(sig, vals, j + 1))

\* the instance, as the record of its name, filepath and get_args
Instance(kind, path, a) == NewHandler(kind, path, a.pos, a.kw)

\* cls(manifest, path, *posargs, **kwargs) when it does not raise
Construct(kind, path, sig, posargs, kwargs) ==
    Instance(kind, path,
             get_args(sig,
                      [j \in 1..Len(sig) |->
                          BoundValue(sig, posargs, kwargs, j)],
                      1))

\* load ends with the exception named
LoadRaise(m, exception) == [m EXCEPT !.raised = exception]

\* self.add_file(path, handler, overwrite=overwrite)
LoadAdded(r) ==
    [files |-> r.files, absolute |-> r.absolute,
     raised |-> IF r.raised THEN "RuntimeError" ELSE "-"]
LoadAdd(m, path, handler, overwrite) ==
    LoadAdded(add_file(m, path, handler, overwrite, FALSE, RecursionLimit))

\* the end of the loop body of load, the class found
LoadBound(m, path, kind, sig, a, overwrite) ==
    IF CallRaises(sig, a.pos, a.kw) THEN LoadRaise(m, "TypeError")
    ELSE LoadAdd(m, path, Construct(kind, path, sig, a.pos, a.kw), overwrite)

\* the loop body of load from `if name == 'none' or not name` on
LoadEntry(m, path, name, a, overwrite) ==
    IF name = <<"none">> \/ Len(name) = 0
    THEN LoadAdd(m, path, None, overwrite)
    ELSE IF from_name_raises(name) THEN LoadRaise(m, "KeyError")
    ELSE LoadBound(m, path, name[1], Signature(name[1]), a, overwrite)

\* the loop body of load for path, name, args = parts[:3]
LoadParts(m, parts, overwrite) ==
    IF TrailingBackslash(parts[1]) THEN LoadRaise(m, "ValueError")
    ELSE LoadEntry(m, string_unescape(parts[1]), parts[2],
                   ParseArgs(FilterNonEmpty(SplitOn(parts[3], ",")),
                             <<>>, <<>>),
                   overwrite)

\* the loop of load: the lines in order, up to the first that raises
RECURSIVE LoadLines(_, _, _)
LoadLines(m, lines, overwrite) ==
    IF Len(lines) = 0 \/ m.raised # "-" THEN m
    ELSE LoadLines(LoadParts(m, PadTo3(SplitOn(lines[1], "\t")), overwrite),
                   Tail(lines), overwrite)

\* Manifest.load on the manifest m: the manifest after the call and the
\* exception it ended with ("-" when it returned)
load(m, text, overwrite) ==
    LoadLines([files |-> m.files, absolute |-> m.absolute, raised |-> "-"],
              FilterNonEmpty(SplitOn(text, "\n")), overwrite)

(***************************************************************************)
(* dump and load: the calls the model makes                                *)
(***************************************************************************)
P_tab  == <<"/", "w", "/", "\t">>
P_back == <<"/", "w", "/", "\\", "'">>

\* the strings the handlers of the manifests hold as args
ArgStrings ==
    {<<"a">>, <<"a", " ", "b">>, <<" ", "a">>, <<"a", ",", "b">>,
     <<"a", "=", "b">>, <<>>, <<"a", "\t">>}

Example(path, v) == NewHandler("example", path, <<v>>, <<>>)
GitClone(path, remote, bare) ==
    NewHandler("git-clone", path, <<StrVal(remote)>>,
               <<<<<<"bare">>, BoolVal(bare)>>>>)

\* whether the interpreter takes the value for true in `if value`
Truthy(v) ==
    CASE v.t = "bool"     -> v.s = <<"True">>
      [] v.t = "str"      -> Len(v.s) > 0
      [] v.t = "int"      -> v.s # <<"0">>
      [] v.t = "NoneType" -> FALSE

\* self.bare of a GitCloneHandler, as its get_args gives it
BareOf(handler) ==
    handler.kw[CHOOSE i \in 1..Len(handler.kw) :
                   handler.kw[i][1] = <<"bare">>][2]

\* GitCloneHandler.restore: flags = ['--bare'] if self.bare else []
CloneFlags(handler) ==
    IF Truthy(BareOf(handler)) THEN <<"--bare">> ELSE <<>>

\* the bindings a path of the manifests has
BindingsOf(path) ==
    {None, NewHandler("basic-file", path, <<>>, <<>>),
     Example(path, IntVal("7"))}
    \cup {Example(path, StrVal(s)) : s \in ArgStrings}
    \cup {GitClone(path, remote, bare) :
             remote \in {<<"url">>, <<"a", "=", "b">>}, bare \in BOOLEAN}

\* the path lists of the manifests
DumpPaths ==
    {<<P_back, P_tab>>, <<P_f, P_tab>>, <<<<"d">>, <<"d", "/", "f">>>>}

\* a manifest find_matches left with keys of both modes
MixedManifest ==
    [files |-> (P_f :> None) @@ (<<"d">> :> BasicDirectoryAt(<<"d">>)),
     absolute |-> "abs"]

DumpInit ==
    /\ \/ ManifestOf(EmptyManifest)
       \/ ManifestOf(MixedManifest)
       \/ \E ps \in DumpPaths :
             \E h1 \in BindingsOf(ps[1]), h2 \in BindingsOf(ps[2]) :
                ManifestOf(AddAll(EmptyManifest,
                                  <<<<ps[1], h1>>, <<ps[2], h2>>>>))
    /\ MatcherIdle
    /\ RestorerIdle
    /\ ArchiveIdle
    /\ IndexIdle
    /\ dpc = "call" /\ data = <<>> /\ loaded = EmptyManifest
    /\ prior = EmptyManifest /\ edits = 0 /\ called = NoCall

\* data = manifest.dump()
DumpCall ==
    /\ dpc = "call"
    /\ data' = dump(files)
    /\ dpc' = "dumped"
    /\ UNCHANGED <<loaded, prior, edits, called, NotDumper>>

\* Manifest().load(data): the new manifest, and how the call ended
LoadEnds(r) ==
    /\ loaded' = [files |-> r.files, absolute |-> r.absolute]
    /\ prior' = loaded
    /\ edits' = edits + 1
    /\ dpc' = IF r.raised = "-" THEN "loaded" ELSE r.raised

LoadCall ==
    /\ dpc = "dumped"
    /\ LoadEnds(load(loaded, data, TRUE))
    /\ UNCHANGED <<data, called, NotDumper>>

DumpNext == DumpCall \/ LoadCall

SpecDump == DumpInit /\ [][DumpNext]_vars

(***************************************************************************)
(* load and add_file on one manifest: the calls the model makes            *)
(***************************************************************************)

\* the most calls made on the manifest
MaxEdits == 2

\* a line of a manifest file
Line(path, name, args) == path \o <<"\t", name, "\t">> \o args \o <<"\n">>

\* the manifest files that are loaded, written by dump or by hand
ManifestTexts ==
    {Line(P_d, "basic-directory", <<>>),
     Line(P_d \o <<"/">>, "basic-directory", <<>>),
     Line(<<"d">>, "basic-directory", <<>>) \o Line(P_f, "basic-file", <<>>),
     Line(P_f, "basic-file", <<>>) \o Line(P_d, "nosuch", <<>>),
     P_f \o <<"\t", "basic-file">>,
     <<"\n">> \o Line(P_r, "git-clone", <<"url", ",", " ", "bare", "=", "True">>),
     Line(<<"d", "/", "f">>, "none", <<>>),
     Line(P_d, "basic-directory", <<>>) \o Line(P_f, "example", <<>>)}

\* the paths add_file is called with
EditPaths == {P_d, P_d \o <<"/">>, <<"d">>, P_l, P_lt, P_c1}

LoadInit ==
    /\ ManifestOf(EmptyManifest)
    /\ MatcherIdle
    /\ RestorerIdle
    /\ ArchiveIdle
    /\ IndexIdle
    /\ dpc = "edit" /\ data = <<>> /\ loaded = EmptyManifest
    /\ prior = EmptyManifest /\ edits = 0 /\ called = NoCall

\* a call on the manifest ended: the manifest after it, and the exception
EditEnds(r) ==
    /\ loaded' = [files |-> r.files, absolute |-> r.absolute]
    /\ prior' = loaded
    /\ edits' = edits + 1
    /\ dpc' = IF r.raised = "-" THEN "edit" ELSE r.raised

\* manifest.load(text, overwrite)
LoadData(text, overwrite) ==
    /\ dpc = "edit"
    /\ edits < MaxEdits
    /\ data' = text
    /\ EditEnds(load(loaded, text, overwrite))
    /\ called' = NoCall
    /\ UNCHANGED NotDumper

\* the key add_file(path0) binds in the manifest m: path0 normalised and
\* coerced to the mode of m
AddFileKey(m, path0) ==
    IF m.absolute = "abs" \/ (m.absolute = "unset" /\ isabs(path0))
    THEN abspath(normpath(path0))
    ELSE relpath(normpath(path0))

\* add_file ended with the result r
AddFileEnds(r, key, overwrite, follow_symlinks) ==
    /\ EditEnds(LoadAdded(r))
    /\ called' = [op |-> "add_file", key |-> key, overwrite |-> overwrite,
                  follow_symlinks |-> follow_symlinks, ret |-> r.ret]

\* manifest.add_file(path, handler, overwrite, follow_symlinks)
AddFileCall(path, handler, overwrite, follow_symlinks) ==
    /\ dpc = "edit"
    /\ edits < MaxEdits
    /\ AddFileEnds(add_file(loaded, path, handler, overwrite,
                            follow_symlinks, RecursionLimit),
                   AddFileKey(loaded, path), overwrite, follow_symlinks)
    /\ UNCHANGED <<data, NotDumper>>

LoadNext ==
    \/ \E text \in ManifestTexts, overwrite \in BOOLEAN :
          LoadData(text, overwrite)
    \/ \E path \in EditPaths, bound \in BOOLEAN, overwrite \in BOOLEAN,
          follow_symlinks \in BOOLEAN :
          AddFileCall(path, IF bound THEN BasicDirectoryAt(path) ELSE None,
                      overwrite, follow_symlinks)

SpecLoad == LoadInit /\ [][LoadNext]_vars

(***************************************************************************)
(* Handler.get_extra_data of each kind                                     *)
(***************************************************************************)

\* what os.stat, the user and group databases and open() give for a node
\* of the fixture: the uid of /tmp/x has no entry in the user database
ModeOf(node)    == IntVal(IF FS[node].type = "dir" THEN "493" ELSE "420")
OwnerOf(node)   == IF node = P_tmpx THEN NoneVal ELSE StrVal(<<"root">>)
GroupOf(node)   == StrVal(<<"root">>)
ContentOf(node) == StrVal(<<"content", "\n">>)

\* the dict a get_extra_data returns, a list of <<key, value>>, or the
\* exception it raises
Returns(d)        == [raised |-> "-", data |-> d]
DataRaises(exception) == [raised |-> exception, data |-> <<>>]

\* SavesFileInfo.get_extra_data once os.stat answered
FileInfo(node) ==
    << <<<<"mode">>, ModeOf(node)>>, <<<<"owner">>, OwnerOf(node)>>,
       <<<<"group">>, GroupOf(node)>> >>

\* SavesFileInfo.get_extra_data
SavesFileInfoData(node) ==
    IF node = Missing THEN DataRaises("OSError") ELSE Returns(FileInfo(node))

\* BasicFileHandler.get_extra_data
BasicFileData(node) ==
    IF node = Missing THEN DataRaises("OSError")
    ELSE IF FS[node].type # "file" THEN DataRaises("IOError")
    ELSE Returns(Append(FileInfo(node), <<<<"content">>, ContentOf(node)>>))

\* SymbolicLinkHandler.get_extra_data
SymbolicLinkData(filepath) ==
    IF ~islink(filepath) THEN DataRaises("OSError")
    ELSE Returns(<< <<<<"target">>, StrVal(readlink(filepath))>> >>)

\* handler.get_extra_data(); uuid is the value uuid4() draws
HandlerExtraData(handler, uuid) ==
    CASE handler.name \in {"basic-directory", "git-clone", "git-bundle"} ->
             SavesFileInfoData(Stat(handler.filepath))
      [] handler.name = "basic-file" -> BasicFileData(Stat(handler.filepath))
      [] handler.name = "symbolic-link" -> SymbolicLinkData(handler.filepath)
      [] handler.name = "example" -> Returns(<< <<<<"random">>, StrVal(uuid)>> >>)
      [] OTHER -> Returns(<<>>)

(***************************************************************************)
(* Archive: the write methods.  An archive being written is the record of  *)
(* its tar members and its _names.                                         *)
(***************************************************************************)

\* Archive.archive_path
archive_path(path) == <<"data", "/">> \o LStrip(path, {"/"})

\* a member of the tar file
Member(name, isreg, bytes) == [name |-> name, isreg |-> isreg, data |-> bytes]

\* self.tar.addfile(...); self._names.add(path)
AddMember(ar, member) ==
    [tar |-> Append(ar.tar, member), names |-> ar.names \cup {member.name}]

\* Archive.mkdir
RECURSIVE mkdir(_, _)

\* a mkdir that does not look into _names (not what the code does)
mkdirUntracked(ar, path) ==
    IF Len(path) = 0 THEN ar
    ELSE AddMember(IF path # dirname(path) THEN mkdir(ar, dirname(path))
                   ELSE ar,
                   Member(path, FALSE, <<>>))

mkdir(ar, path) ==
    IF Len(path) = 0 \/ path \in ar.names THEN ar
    ELSE AddMember(IF path # dirname(path) THEN mkdir(ar, dirname(path))
                   ELSE ar,
                   Member(path, FALSE, <<>>))

\* Archive.write
write(ar, path, value) ==
    AddMember(mkdir(ar, dirname(path)), Member(path, TRUE, str(value).s))

\* Archive.add_extra_data, path already the archive path, data the items
RECURSIVE add_extra_data(_, _, _)
add_extra_data(ar, path, items) ==
    IF Len(items) = 0 THEN ar
    ELSE add_extra_data(write(ar, join(path, items[1][1]), items[1][2]),
                        path, Tail(items))

\* the loop body of add_manifest once get_extra_data answered d
AddData(st, path, d) ==
    IF d.raised # "-" THEN [st EXCEPT !.raised = d.raised]
    ELSE [ar |-> IF Len(d.data) > 0
                 THEN add_extra_data(st.ar, archive_path(path), d.data)
                 ELSE st.ar,
          raised |-> "-",
          backup |-> Put(st.backup, path, d.data)]

\* the loop body of add_manifest: None has no get_extra_data
AddEntry(st, path, handler, uuid) ==
    IF handler = None THEN [st EXCEPT !.raised = "AttributeError"]
    ELSE AddData(st, path, HandlerExtraData(handler, uuid))

\* the loop of add_manifest over manifest.files.items(), up to the first
\* entry that raises
RECURSIVE AddEntries(_, _, _, _)
AddEntries(st, f, paths, uuid) ==
    IF Len(paths) = 0 \/ st.raised # "-" THEN st
    ELSE AddEntries(AddEntry(st, paths[1], f[paths[1]], uuid), f,
                    Tail(paths), uuid)

\* Archive.add_manifest: the archive, the exception it ended with and the
\* extra data the handlers returned
\* paths is the order manifest.files.items() gives the entries in
add_manifest(ar, f, paths, uuid) ==
    AddEntries([ar |-> write(ar, <<"manifest">>, StrVal(dump(f))),
                raised |-> "-", backup |-> <<>>],
               f, paths, uuid)

(***************************************************************************)
(* Archive: the read methods, on the members of the tar file               *)
(***************************************************************************)

\* self.tar.getmember(name): the last member of the name
getmember(members, name) ==
    members[CHOOSE i \in 1..Len(members) :
                /\ members[i].name = name
                /\ \A j \in (i + 1)..Len(members) : members[j].name # name]

\* Archive.get_names
get_names(members) == {members[i].name : i \in 1..Len(members)}

\* Archive.read
read(members, name) == getmember(members, name).data

\* Archive.get_manifest
get_manifest(members) == load(EmptyManifest, read(members, <<"manifest">>), TRUE)

\* Archive.get_extra_data: the dict as the set of its <<key, value>>
get_extra_data(members, path) ==
    {<<basename(name), StrVal(read(members, name))>> :
        name \in {n \in get_names(members) :
                     /\ dirname(n) = archive_path(path)
                     /\ getmember(members, n).isreg}}

(***************************************************************************)
(* Archive: the calls the model makes                                      *)
(***************************************************************************)

\* the entries of the manifests that are archived
ArchiveEntries ==
    {<<P_f, NewHandler("basic-file", P_f, <<>>, <<>>)>>,
     <<P_tmpx, NewHandler("basic-file", P_tmpx, <<>>, <<>>)>>,
     <<P_d, BasicDirectoryAt(P_d)>>,
     <<P_root, BasicDirectoryAt(P_root)>>,
     <<P_l, NewHandler("symbolic-link", P_l, <<>>, <<>>)>>,
     <<P_d, Example(P_d, IntVal("7"))>>,
     <<P_dr, Example(P_dr, IntVal("7"))>>,
     <<P_ra, NewHandler("parent", P_ra, <<>>, <<>>)>>,
     <<P_r, GitClone(P_r, <<"url">>, FALSE)>>,
     <<P_f, None>>}

\* the values uuid4() draws
Uuids == {<<"uuid1">>, <<"uuid2">>}

ArchiveInit ==
    /\ \E e1 \in ArchiveEntries, e2 \in ArchiveEntries :
          ManifestOf(AddAll(EmptyManifest, <<e1, e2>>))
    /\ MatcherIdle
    /\ RestorerIdle
    /\ DumperIdle
    /\ IndexIdle
    /\ apc = "call" /\ tar = <<>> /\ anames = {} /\ backup = <<>>
    /\ readManifest = EmptyManifest
    /\ readExtra = <<>>

\* Archive(file, 'w').add_manifest(manifest), and how it ended
AddManifestEnds(st) ==
    /\ tar' = st.ar.tar
    /\ anames' = st.ar.names
    /\ backup' = st.backup
    /\ apc' = IF st.raised = "-" THEN "written" ELSE st.raised

AddManifestCall(uuid, paths) ==
    /\ apc = "call"
    /\ AddManifestEnds(add_manifest([tar |-> tar, names |-> anames], files,
                                    paths, uuid))
    /\ UNCHANGED <<readManifest, readExtra, NotArchive>>

\* Archive(file, 'r').get_manifest(), and how it ended
GetManifestEnds(r) ==
    /\ readManifest' = [files |-> r.files, absolute |-> r.absolute]
    /\ apc' = IF r.raised = "-" THEN "read" ELSE r.raised

GetManifestCall ==
    /\ apc = "written"
    /\ GetManifestEnds(get_manifest(tar))
    /\ UNCHANGED <<tar, anames, backup, readExtra, NotArchive>>

\* get_extra_data(path) on the archive read, for a path of the manifest
GetExtraDataCall(path) ==
    /\ apc = "read"
    /\ path \in DOMAIN files
    /\ path \notin DOMAIN readExtra
    /\ readExtra' = Put(readExtra, path, get_extra_data(tar, path))
    /\ UNCHANGED <<apc, tar, anames, backup, readManifest, NotArchive>>

ArchivePaths == {P_f, P_tmpx, P_d, P_root, P_l, P_ra, P_r, P_dr}

ArchiveNext ==
    \/ \E uuid \in Uuids, paths \in OrdersOf(DOMAIN files) :
           AddManifestCall(uuid, paths)
    \/ GetManifestCall
    \/ \E path \in ArchivePaths : GetExtraDataCall(path)

SpecArchive == ArchiveInit /\ [][ArchiveNext]_vars

(***************************************************************************)
(* PackageHandler: the package index                                       *)
(***************************************************************************)

\* the get_package calls a run makes at most
MaxLookups == 3

\* what package_index holds and get_package returns: a package name, an
\* Event (numbered by the call that made it) or None
Package(n)  == [t |-> "package", n |-> n]
EventOf(n)  == [t |-> "Event", n |-> n]
NoPackage   == [t |-> "None", n |-> 0]

\* a line 'package filepath' of the listing, and a line without a space
OwnedLine(n, filepath) ==
    [ok |-> TRUE, package |-> Package(n), filepath |-> filepath]
BadLine == [ok |-> FALSE, package |-> NoPackage, filepath |-> <<>>]

\* what `pacman -Ql` can print; no output at all splits into the one line
\* '', which does not unpack
Listings == {
    <<BadLine>>,
    <<OwnedLine(1, P_f)>>,
    <<OwnedLine(1, P_f), OwnedLine(2, P_d)>>,
    <<OwnedLine(1, P_f), BadLine, OwnedLine(2, P_d)>>,
    <<OwnedLine(1, P_f), OwnedLine(2, P_f)>> }

\* the paths looked up
LookupPaths == {P_f, P_d}

\* cls.package_index.get(filepath, None)
IndexGet(index, filepath) ==
    IF filepath \in DOMAIN index THEN index[filepath] ELSE NoPackage

\* del cls.package_index[filepath]
IndexDel(index, filepath) ==
    [k \in DOMAIN index \ {filepath} |-> index[k]]

\* set_package on st, the index and the Events that are set
set_package(st, filepath, package) ==
    [index |-> Put(st.index, filepath, package),
     set   |-> IF IndexGet(st.index, filepath).t = "Event"
               THEN st.set \cup {IndexGet(st.index, filepath).n}
               ELSE st.set,
     raised |-> FALSE]

\* the loop of PacmanHandler.index_packages over the lines; it does not
\* yield, and the line that does not unpack ends it with ValueError
RECURSIVE IndexLines(_, _)
IndexLines(st, lines) ==
    IF Len(lines) = 0 THEN st
    ELSE IF ~lines[1].ok THEN [st EXCEPT !.raised = TRUE]
    ELSE IndexLines(set_package(st, lines[1].filepath, lines[1].package),
                    Tail(lines))

IndexInit ==
    /\ ManifestOf(EmptyManifest)
    /\ MatcherIdle
    /\ RestorerIdle
    /\ DumperIdle
    /\ ArchiveIdle
    /\ package_index = <<>> /\ indexer = "None"
    /\ listing \in Listings
    /\ eventsSet = {} /\ lookups = <<>>

\* get_package up to get_first, result being what the index held: the
\* indexer is spawned by the first call, a miss leaves a new Event
GetPackageWith(filepath, result) ==
    /\ indexer' = IF indexer = "None" THEN "spawned" ELSE indexer
    /\ package_index' =
           IF result.t = "None"
           THEN Put(package_index, filepath, EventOf(Len(lookups) + 1))
           ELSE package_index
    /\ lookups' = Append(lookups,
           CASE result.t = "None" ->
                   [pc |-> "get_first", filepath |-> filepath,
                    result |-> EventOf(Len(lookups) + 1)]
             [] result.t = "Event" ->
                   [pc |-> "get_first", filepath |-> filepath,
                    result |-> result]
             [] OTHER ->
                   [pc |-> "returned", filepath |-> filepath,
                    result |-> result])

GetPackageCall(filepath) ==
    /\ Len(lookups) < MaxLookups
    /\ GetPackageWith(filepath, IndexGet(package_index, filepath))
    /\ UNCHANGED <<listing, eventsSet, NotIndex>>

\* the indexer greenlet starts: subprocess.check_output
IndexerStarts ==
    /\ indexer = "spawned"
    /\ indexer' = "running"
    /\ UNCHANGED <<package_index, listing, eventsSet, lookups, NotIndex>>

\* the listing is there: the indexer greenlet runs to its end
IndexerEnds(st) ==
    /\ package_index' = st.index
    /\ eventsSet' = st.set
    /\ indexer' = IF st.raised THEN "dead" ELSE "finished"

IndexerRuns ==
    /\ indexer = "running"
    /\ IndexerEnds(IndexLines([index |-> package_index, set |-> eventsSet,
                               raised |-> FALSE], listing))
    /\ UNCHANGED <<listing, lookups, NotIndex>>

\* get_package from line 45 on, new_result being what the index holds now
GetPackageEnds(l, new_result) ==
    IF new_result = lookups[l].result
    THEN /\ package_index' = IndexDel(package_index, lookups[l].filepath)
         /\ lookups' = [lookups EXCEPT ![l].pc = "returned",
                                       ![l].result = NoPackage]
    ELSE /\ lookups' = [lookups EXCEPT ![l].pc = "returned",
                                       ![l].result = new_result]
         /\ UNCHANGED package_index

\* a get_first that waits for nothing (not what the code does)
GetFirstReturnsAtOnce(l) ==
    /\ lookups[l].pc = "get_first"
    /\ GetPackageEnds(l, IndexGet(package_index, lookups[l].filepath))
    /\ UNCHANGED <<indexer, listing, eventsSet, NotIndex>>

\* get_first(result.wait, cls.indexer.get) returns: the Event is set or
\* the indexer has finished
GetFirstReturns(l) ==
    /\ lookups[l].pc = "get_first"
    /\ lookups[l].result.n \in eventsSet \/ indexer = "finished"
    /\ GetPackageEnds(l, IndexGet(package_index, lookups[l].filepath))
    /\ UNCHANGED <<indexer, listing, eventsSet, NotIndex>>

\* cls.indexer.get raises what the indexer raised
GetFirstRaises(l) ==
    /\ lookups[l].pc = "get_first"
    /\ indexer = "dead"
    /\ lookups' = [lookups EXCEPT ![l].pc = "raised"]
    /\ UNCHANGED <<package_index, indexer, listing, eventsSet, NotIndex>>

IndexNext ==
    \/ \E filepath \in LookupPaths : GetPackageCall(filepath)
    \/ IndexerStarts
    \/ IndexerRuns
    \/ \E l \in DOMAIN lookups : GetFirstReturns(l)
    \/ \E l \in DOMAIN lookups : GetFirstRaises(l)

SpecIndex == IndexInit /\ [][IndexNext]_vars

(***************************************************************************)
(* Properties of find_matches                                              *)
(***************************************************************************)

\* the greenlet of q is about to call cls.match for q
AboutToMatch(q) ==
    Runs(q) /\ task[q].pc = "loop" /\ task[q].idx <= Len(cfg.handlers)

\* the greenlet of q has left the handler loop of find_match with files[q]
\* as it leaves it
Chosen(q) ==
    \/ task[q].pc \in {"setready", "expand", "progress", "waitlock",
                       "finished"} \cup InCallback
    \/ task[q].pc = "dead" /\ task[q].err \in {"TypeError", "AttributeError"}

\* the binding of a path of the manifest is final: its greenlet has chosen,
\* or it has none and is bound
BindingFinal(par) ==
    IF par \in DOMAIN task THEN Chosen(par) ELSE files[par] # None

\* C1: no match is called for a path whose parent path is a key of the
\* manifest before the binding of the parent is final.
C1_ParentMatchedFirst ==
    \A q \in DOMAIN task :
        (AboutToMatch(q) /\ dirname(q) # q /\ dirname(q) \in DOMAIN files)
            => BindingFinal(dirname(q))

\* a match is about to be called for a path whose parent path is a key of
\* the manifest that is unbound and has no greenlet
C1_Witness ==
    \E q \in DOMAIN task :
        /\ AboutToMatch(q)
        /\ dirname(q) \in DOMAIN files \ DOMAIN task
        /\ files[dirname(q)] = None

\* cls.match(self, q) for the j-th class of the priority list
MatchAt(q, j) == KindMatch(cfg.handlers[j], files, q, cfg.gitbad)

\* the j-th class of the priority list is the first whose match gives a
\* result for q
IsFirstMatch(q, j) ==
    /\ MatchAt(q, j).m = "match"
    /\ \A i \in 1..(j - 1) : MatchAt(q, i).m = "None"

\* q is bound to the instance of the j-th class made from the result r
BoundTo(q, j, r) ==
    q \in DOMAIN files /\ files[q] = NewHandler(cfg.handlers[j], q, r.pos, r.kw)

\* C4: without a confirm callback, a path whose greenlet has left the
\* handler loop is bound to an instance of the first class of the priority
\* list whose match gives a result.
C4_FirstMatchBound ==
    ~cfg.confirm =>
        \A q \in DOMAIN task :
            Chosen(q) =>
                \A j \in 1..Len(cfg.handlers) :
                    IsFirstMatch(q, j) => BoundTo(q, j, MatchAt(q, j))

\* a path two classes match has been bound, to the earlier one
C4_Witness ==
    /\ ~cfg.confirm
    /\ \E q \in DOMAIN task :
          /\ Chosen(q)
          /\ \E j, k \in 1..Len(cfg.handlers) :
                /\ j < k
                /\ IsFirstMatch(q, j)
                /\ MatchAt(q, k).m = "match"
                /\ BoundTo(q, j, MatchAt(q, j))

\* C5: once a confirm callback has raised StopMatching no greenlet starts
\* matching any more, and find_matches does not end with an exception.
C5_GracefulStop ==
    stopped =>
        /\ lateStart = {}
        /\ mainpc \notin {"AttributeError", "LoopExit"}

\* StopMatching was raised and find_matches has ended with an exception
C5_Witness == stopped /\ mainpc = "AttributeError"

\* k is a path directly under the directory q
ChildOf(k, q) == abspath(k) # abspath(q) /\ abspath(dirname(k)) = abspath(q)

\* q is bound to a handler that restores contents
BoundRestoresContents(q) ==
    q \in DOMAIN files /\ files[q] # None
    /\ files[q].name \in HasRestoresContents

\* C6: when a path the matcher added is bound to a handler that restores
\* contents, the matcher adds no path directly under it.
C6_NoChildOfRestoresContents ==
    \A q \in DOMAIN task :
        (task[q].added /\ Chosen(q) /\ BoundRestoresContents(q))
            => \A k \in matcherAdded : ~ChildOf(k, q)

\* the greenlet of a directory with entries, which the matcher added and
\* which is bound to a handler that restores contents, has finished
C6_Witness ==
    \E q \in DOMAIN task :
        /\ task[q].added /\ task[q].pc = "finished"
        /\ BoundRestoresContents(q)
        /\ isdir(q) /\ listdir(q) # {}

\* match_path has ended for q
Ended(q) == task[q].pc \in {"finished", "dead"}

\* C7: when match_path has ended for a directory the matcher added, bound
\* to a handler that does not restore contents, each of its entries is in
\* the manifest or has a greenlet spawned for it.
C7_ChildrenSpawned ==
    \A q \in DOMAIN task :
        (task[q].added /\ Ended(q) /\ Chosen(q) /\ isdir(q)
         /\ q \in DOMAIN files /\ files[q] # None
         /\ ~BoundRestoresContents(q))
            => \A n \in listdir(q) :
                   normpath(join(q, n)) \in DOMAIN files \cup DOMAIN task

\* the greenlet of a directory the matcher added, bound to basic-directory,
\* has died of the AttributeError
C7_Witness ==
    \E q \in DOMAIN task :
        /\ task[q].added /\ task[q].pc = "dead"
        /\ task[q].err = "AttributeError"
        /\ q \in DOMAIN files /\ files[q].name = "basic-directory"

\* C10: all keys of the manifest are in the mode of the manifest.
C10_AllKeysOneMode ==
    \A k \in DOMAIN files : isabs(k) <=> absolute = "abs"

\* find_matches has bound a relative key in a manifest of absolute keys
C10_Witness ==
    /\ absolute = "abs"
    /\ \E k \in DOMAIN files : ~isabs(k) /\ files[k] # None

\* the places of a greenlet inside the with _lock block of find_match
InsideLock ==
    {"loop", "inmatch", "matchwait", "matchret", "inconfirm", "confirmwait",
     "confirmret"}

\* the greenlets that hold the semaphore
ActivelyMatching == {q \in DOMAIN task : task[q].pc \in InsideLock}

\* C12: at every moment of find_matches, the number of tasks that are
\* actively matching (between acquiring and releasing the concurrency gate)
\* is at most MATCH_CONCURRENCY_MAX.
C12_ConcurrencyCapped == Cardinality(ActivelyMatching) <= MaxConcurrency

\* the gate is full and another greenlet waits at it
C12_Witness ==
    /\ Cardinality(ActivelyMatching) = MaxConcurrency
    /\ \E q \in DOMAIN task : task[q].pc = "waitsem"

\* the greenlet of q was ended by the error a match raised
EndedByMatchError(q) == task[q].pc = "dead" /\ task[q].err = "ValueError"

\* C13: when a handler kind's match raises an unexpected error for a path,
\* that kind is treated as not matching: the task of the path is not ended
\* by the error, so the remaining kinds are still tried and the path's ready
\* flag is still set.
C13_MatchErrorIsNoMatch == \A q \in DOMAIN task : ~EndedByMatchError(q)

\* find_matches has ended after the match of git-clone raised for a path:
\* the path is left unbound, its ready flag is not set
C13_Witness ==
    /\ mainpc \in {"AttributeError", "LoopExit"}
    /\ \E q \in DOMAIN task :
          /\ EndedByMatchError(q)
          /\ q \notin isSet
          /\ files[q] = None

\* the parent of q is a manifest path bound to a clone or a bundle
ParentIsClone(q) ==
    /\ dirname(q) # q
    /\ dirname(q) \in DOMAIN files
    /\ files[dirname(q)] # None
    /\ files[dirname(q)].name \in {"git-clone", "git-bundle"}

\* C17: with handled-by-parent first in the priority list, a path matched
\* while its parent in the manifest is bound to git-clone or git-bundle
\* matches handled-by-parent and is bound to it.
C17_ChildOfCloneHandledByParent ==
    \A q \in DOMAIN task :
        (cfg.handlers[1] = "parent" /\ ParentIsClone(q)) =>
            /\ HandledByParentMatch(files, q) # NoMatch
            /\ task[q].pc = "finished" =>
                   files[q] # None /\ files[q].name = "parent"

\* find_match has ended without an exception for a path whose parent was
\* bound to git-clone before, handled-by-parent being first in the list
C17_Witness ==
    \E q \in DOMAIN task :
        /\ cfg.handlers[1] = "parent" /\ ParentIsClone(q)
        /\ dirname(q) \in DOMAIN task
        /\ task[q].pc = "finished"
        /\ files[q] # None

\* find_matches has returned or raised
FindMatchesOver == mainpc \in {"returned", "AttributeError", "LoopExit"}

\* the last progress call had the arguments (total, total), total being
\* the length of unmatched
LastCallIsTotal(call, total) == call = <<total, total>>

\* C20: the last progress call made when find_matches ends is (total,
\* total), total being the number of paths in unmatched, those added while
\* matching included; and in every call done <= total.
C20_ProgressEndsAtTotal ==
    [][/\ progress' # <<>> => progress'[1] <= progress'[2]
       /\ (~FindMatchesOver /\ FindMatchesOver') =>
              LastCallIsTotal(progress', Len(unmatched'))]_vars

\* find_matches has ended with the AttributeError of its loop, the last
\* progress call short of the total
C20_Witness ==
    /\ mainpc = "AttributeError"
    /\ progress # <<>> /\ progress[1] < progress[2]
    /\ progress[2] = Len(unmatched)

\* C22: with overwrite false, find_matches never changes the binding of a
\* key that is bound: only unbound entries and paths added while matching
\* receive a handler.
C22_BoundKeysKept ==
    [][~cfg.overwrite =>
          \A k \in DOMAIN files :
              files[k] # None => (k \in DOMAIN files' /\ files'[k] = files[k])]_vars

\* without overwrite, a greenlet has bound its path in a manifest that has
\* an entry bound before the call, to a handler that is not first in the
\* list that matches it now
C22_Witness ==
    /\ ~cfg.overwrite
    /\ \E q \in DOMAIN task : task[q].pc = "finished" /\ files[q] # None
    /\ \E k \in DOMAIN files \ DOMAIN task :
           /\ files[k] # None
           /\ \E j \in 1..Len(cfg.handlers) :
                  /\ IsFirstMatch(k, j)
                  /\ cfg.handlers[j] # files[k].name

\* the greenlets whose call of the progress callback has not returned
CallingBack == {q \in DOMAIN task : task[q].pc \in InCallback}

\* C21: no two calls of the progress callback overlap, even when the
\* callback suspends: a call starts only after the one before has returned.
C21_ProgressCallsSerialized == Cardinality(CallingBack) <= 1

\* the callback is suspended in one greenlet while another, its count made,
\* waits for the lock
C21_Witness ==
    /\ \E q \in DOMAIN task : task[q].pc = "callbackwait"
    /\ \E q \in DOMAIN task : task[q].pc = "waitlock"

\* find_matches has ended and the hub has no greenlet left to switch to
MatchQuiescent ==
    /\ Hub /\ mainpc \in {"returned", "AttributeError", "LoopExit"}
    /\ \A q \in DOMAIN task : ~Runnable(q)

\* no match has raised and no confirm callback has raised
EveryCallReturned ==
    \A q \in DOMAIN task : task[q].err \notin {"ValueError", "StopMatching"}

\* C25: when every match and every confirm call returns, every greenlet
\* sets the Event of its path before matching comes to rest, whatever the
\* manifest, '/' included.
C25_EveryTaskSetsReady ==
    (MatchQuiescent /\ EveryCallReturned) =>
        \A q \in DOMAIN task : q \in isSet

\* matching has come to rest with no call that raised, and the greenlet of
\* a path that is its own parent still waits for the Event of its parent
C25_Witness ==
    /\ MatchQuiescent /\ EveryCallReturned
    /\ \E q \in DOMAIN task :
           /\ dirname(q) = q
           /\ task[q].pc = "waitparent"
           /\ q \notin isSet

\* C26: the tokens of the semaphore that are taken are held by greenlets
\* inside the with _lock block, which comes after the parent wait: a
\* greenlet that waits for the Event of its parent holds none, and matching
\* never comes to rest with a greenlet waiting for a token.
C26_NoTokenWhileWaitingForParent ==
    /\ MaxConcurrency - sem = Cardinality(ActivelyMatching)
    /\ MatchQuiescent => \A q \in DOMAIN task : task[q].pc # "waitsem"

\* a greenlet waits for the Event of its parent while the greenlet of the
\* parent holds the last token
C26_Witness ==
    /\ sem = 0
    /\ \E q \in DOMAIN task :
           /\ task[q].pc = "waitparent"
           /\ dirname(q) \in ActivelyMatching

(***************************************************************************)
(* Properties of dump and load                                             *)
(***************************************************************************)

\* load has ended, by returning or by raising
LoadEnded == dpc \notin {"idle", "call", "dumped"}

\* the args of a binding as the manifest file holds them, strings: the
\* list of the positional ones and the dict of the keyword ones
PositionalTexts(h) == [i \in 1..Len(h.pos) |-> str(h.pos[i]).s]
KeywordTexts(h) == {<<h.kw[i][1], str(h.kw[i][2]).s>> : i \in 1..Len(h.kw)}

\* the same handler name (or unbound) and the same args
SameBinding(h, g) ==
    /\ h.name = g.name
    /\ PositionalTexts(h) = PositionalTexts(g)
    /\ KeywordTexts(h) = KeywordTexts(g)

\* the manifests f and g have the same paths, each bound alike
SameManifest(f, g) ==
    DOMAIN f = DOMAIN g /\ \A p \in DOMAIN f : SameBinding(f[p], g[p])

\* load returned a manifest equal to the dumped one
RoundTrip == dpc = "loaded" /\ SameManifest(files, loaded.files)

Carried(s) ==
    /\ Len(s) > 0
    /\ \A i \in 1..Len(s) : s[i] \notin {",", "\t", "\n"}
    /\ s[1] \notin Whitespace /\ s[Len(s)] \notin Whitespace

NoEquals(s) == \A i \in 1..Len(s) : s[i] # "="

\* every arg of the binding is carried, no positional arg and no key holds
\* an equals sign
CarriedArgs(h) ==
    /\ \A i \in 1..Len(h.pos) :
          Carried(str(h.pos[i]).s) /\ NoEquals(str(h.pos[i]).s)
    /\ \A i \in 1..Len(h.kw) :
          /\ Carried(h.kw[i][1]) /\ NoEquals(h.kw[i][1])
          /\ Carried(str(h.kw[i][2]).s)

\* every key is in the mode of the manifest
KeysCoerced == \A k \in DOMAIN files : isabs(k) <=> absolute = "abs"

ClonesDumped == {p \in DOMAIN files : files[p].name = "git-clone"}
ClonesLoaded ==
    IF dpc # "loaded" THEN {}
    ELSE {p \in ClonesDumped :
             p \in DOMAIN loaded.files /\ loaded.files[p].name = "git-clone"}

\* C34: a git-clone handler restores with --bare exactly when the
\* repository matched was bare, as match made it and as load makes it from
\* the args dump has written.
C34_BareFlagKept ==
    /\ \A p \in ClonesDumped :
           CloneFlags(files[p]) = <<"--bare">> <=> BareOf(files[p]) = BoolVal(TRUE)
    /\ \A p \in ClonesLoaded :
           CloneFlags(loaded.files[p]) = <<"--bare">>
               <=> BareOf(files[p]) = BoolVal(TRUE)

\* the handler of a repository that was not bare has been dumped and
\* loaded, and restores with --bare
C34_Witness ==
    \E p \in ClonesLoaded :
        /\ BareOf(files[p]) = BoolVal(FALSE)
        /\ BareOf(loaded.files[p]) = StrVal(<<"False">>)
        /\ CloneFlags(loaded.files[p]) = <<"--bare">>

(***************************************************************************)
(* Properties of load and add_file                                         *)
(***************************************************************************)

\* C11: after any sequence of load and add_file calls, every bound
\* handler's path equals the key under which it is stored in the manifest.
C11_HandlerPathIsKey ==
    \A k \in DOMAIN loaded.files :
        loaded.files[k] # None => loaded.files[k].filepath = k

\* load has returned and left a bound entry in the manifest
C11_Witness ==
    /\ dpc = "edit" /\ edits > 0 /\ Len(data) > 0
    /\ \E k \in DOMAIN loaded.files : loaded.files[k] # None

\* the last call was a load that raised: add_file raises nothing but the
\* RuntimeError of its recursion
LoadFailed == dpc \in {"KeyError", "TypeError", "ValueError"}

\* C15: when load fails on a line, the manifest is as it was before the
\* call: no entry from the earlier lines of the same data has been added.
C15_FailedLoadChangesNothing == LoadFailed => loaded = prior

\* load has raised the KeyError of a handler name that is not registered,
\* with an entry of an earlier line in the manifest that was not in it
\* before the call
C15_Witness ==
    /\ dpc = "KeyError"
    /\ \E k \in DOMAIN loaded.files : k \notin DOMAIN prior.files

\* the last call on the manifest was add_file with overwrite false, of a
\* path whose key was in the manifest
AddedPresentKey ==
    /\ called.op = "add_file" /\ ~called.overwrite
    /\ called.key \in DOMAIN prior.files

\* C23: add_file with overwrite false of a path whose key is in the manifest
\* changes nothing, and the key is not in the list it returns.
C23_PresentKeyUntouched ==
    AddedPresentKey =>
        /\ loaded = prior
        /\ ~InList(called.ret, called.key)

\* such a call has returned the target of the link it was given, which it
\* has added to the manifest
C23_Witness ==
    /\ AddedPresentKey
    /\ dpc = "edit"
    /\ Len(called.ret) = 1
    /\ called.ret[1] \notin DOMAIN prior.files
    /\ called.ret[1] \in DOMAIN loaded.files

\* the last call on the manifest was add_file with follow_symlinks true,
\* of a path that is a symlink
AddedLinkFollowing ==
    /\ called.op = "add_file" /\ called.follow_symlinks
    /\ islink(called.key)

\* what the link at path points to: its text, taken from the directory the
\* link is in when it is relative
LinkTarget(path) == join(dirname(path), readlink(path))

\* C32: add_file with follow_symlinks true of a symlink that returns has
\* added the target of the link, resolved from the directory of the link
\* when the link text is relative, and the link; the target comes before
\* the link in the list returned.
C32_TargetThenLink ==
    (AddedLinkFollowing /\ dpc = "edit") =>
        /\ AddFileKey(loaded, LinkTarget(called.key)) \in DOMAIN loaded.files
        /\ called.key \in DOMAIN loaded.files
        /\ \A i, j \in DOMAIN called.ret :
               (called.ret[i] = AddFileKey(loaded, LinkTarget(called.key))
                /\ called.ret[j] = called.key) => i < j

\* such a call, of a link with a relative text whose target exists, has
\* returned the link alone and the target is not in the manifest
C32_Witness ==
    /\ AddedLinkFollowing /\ dpc = "edit"
    /\ ~isabs(readlink(called.key))
    /\ exists(LinkTarget(called.key))
    /\ called.ret = <<called.key>>
    /\ AddFileKey(loaded, LinkTarget(called.key)) \notin DOMAIN loaded.files

\* C33: add_file with follow_symlinks true comes to an end of its own for
\* every arrangement of symlinks: its chain of calls never reaches the
\* depth at which the interpreter stops it.
C33_FollowingTerminates ==
    (called.op = "add_file" /\ called.follow_symlinks) => dpc # "RuntimeError"

\* add_file was called with follow_symlinks true for a link that points to
\* a link that points back to it, and was ended by the RuntimeError of the
\* interpreter, the manifest as it was
C33_Witness ==
    /\ AddedLinkFollowing /\ dpc = "RuntimeError"
    /\ islink(LinkTarget(called.key))
    /\ LinkTarget(LinkTarget(called.key)) = called.key
    /\ loaded = prior

(***************************************************************************)
(* Properties of restore_all                                               *)
(***************************************************************************)

\* handler.restore has been called for p
RestoreInvoked(p) ==
    rtask[p].pc \in {"inrestore", "restorewait", "restoreret", "done", "dead"}

\* handler.restore has returned for p without raising
RestoreReturned(p) == rtask[p].pc = "done"

\* C2: restore is called for a path only after restore has returned
\* without raising for each of its dependencies that is in the manifest.
C2_RestoreAfterDepends ==
    \A p \in DOMAIN rtask :
        RestoreInvoked(p) =>
            \A d \in NormDepends(files[p]) :
                d \in DOMAIN files => RestoreReturned(d)

\* restore has returned for a path that has a dependency in the manifest
C2_Witness ==
    \E p \in DOMAIN rtask :
        /\ RestoreReturned(p)
        /\ \E d \in NormDepends(files[p]) : d \in DOMAIN files

\* the path a is bound to a handler that declares the manifest path b
DependsOn(a, b) ==
    /\ a \in DOMAIN files /\ files[a] # None
    /\ b \in DOMAIN files /\ b \in NormDepends(files[a])

\* the manifest paths reached from those of S in 1 to k steps
RECURSIVE ReachIn(_, _)
ReachIn(S, k) ==
    IF k = 0 THEN {}
    ELSE {b \in DOMAIN files : \E a \in S : DependsOn(a, b)}
         \cup ReachIn({b \in DOMAIN files : \E a \in S : DependsOn(a, b)}, k - 1)

\* the declared dependencies form a cycle among manifest paths
HasDependencyCycle ==
    \E p \in DOMAIN files : p \in ReachIn({p}, Cardinality(DOMAIN files))

\* the chain ends by coming back to a path it holds, along declared
\* dependencies: it names every path of that cycle
ChainIsCycle(chain) ==
    \E i \in 1..(Len(chain) - 1) :
        /\ chain[i] = chain[Len(chain)]
        /\ \A k \in i..(Len(chain) - 1) : DependsOn(chain[k], chain[k + 1])

\* C3: restore_all on a manifest whose declared dependencies form a cycle
\* ends with the dependency cycle error, its chain naming the paths of the
\* cycle, and no restore is called.
C3_CycleReported ==
    (rpc \notin {"idle", "call"} /\ HasDependencyCycle) =>
        /\ rpc = "ValueError"
        /\ ChainIsCycle(rchain)
        /\ rtask = <<>>

\* restore_all has ended with the AttributeError of check_cycles on a
\* manifest that has a dependency cycle
C3_Witness ==
    HasDependencyCycle /\ rpc = "AttributeError"

\* handler.restore has raised for p
RestoreRaised(p) == rtask[p].pc = "dead"

\* the manifest path the greenlet of a waits for on behalf of one of its
\* dependencies is b
WaitsOn(a, b) ==
    /\ a \in DOMAIN files /\ files[a] # None
    /\ \E d \in NormDepends(files[a]) : WaitTarget(d) = WaitFor(b)

\* the manifest paths whose greenlets wait, in 0 to k steps, for one of S
RECURSIVE DependentsIn(_, _)
DependentsIn(S, k) ==
    IF k = 0 THEN S
    ELSE S \cup DependentsIn({a \in DOMAIN files : \E b \in S : WaitsOn(a, b)},
                             k - 1)

\* the paths that depend on p, directly or transitively
DependentsOf(p) ==
    DependentsIn({a \in DOMAIN files : WaitsOn(a, p)},
                 Cardinality(DOMAIN files))

\* restore_all has ended
RestoreAllEnded == rpc \in {"returned", "raised", "LoopExit"}

\* C14: when restore raises for a path, restore is never called for a path
\* that depends on it directly or transitively, and when restore_all ends
\* restore has been called for every path that depends on no path whose
\* restore raised.
C14_FailureStopsDependentsOnly ==
    /\ \A p \in DOMAIN rtask :
           RestoreRaised(p) =>
               \A q \in DependentsOf(p) : ~RestoreInvoked(q)
    /\ (RestoreAllEnded /\ \E p \in DOMAIN rtask : RestoreRaised(p)) =>
           \A q \in DOMAIN rtask :
               (\A p \in DOMAIN rtask : RestoreRaised(p) => q \notin DependentsOf(p))
                   => RestoreInvoked(q)

\* restore_all has ended after a restore raised for a path that has a
\* dependent, and restore has returned for a path that does not depend on it
C14_Witness ==
    /\ RestoreAllEnded
    /\ \E p \in DOMAIN rtask :
           /\ RestoreRaised(p)
           /\ DependentsOf(p) # {}
           /\ \E q \in DOMAIN rtask \ DependentsOf(p) :
                  q # p /\ RestoreReturned(q)

\* the directories above path, k levels up at most
RECURSIVE AncestorsIn(_, _)
AncestorsIn(path, k) ==
    IF k = 0 \/ dirname(path) = path THEN {}
    ELSE {dirname(path)} \cup AncestorsIn(dirname(path), k - 1)

\* the ancestor directories of a dependency that are manifest paths
ManifestAncestors(dependency) ==
    AncestorsIn(dependency, Len(dependency)) \cap DOMAIN files

\* the nearest of them
NearestAncestor(dependency) ==
    CHOOSE a \in ManifestAncestors(dependency) :
        \A b \in ManifestAncestors(dependency) : Len(b) <= Len(a)

\* the greenlet of p does not get past its dependency
HeldAt(p, dependency) ==
    /\ rtask[p].pc \in {"waitdep", "spinning"}
    /\ rtask[p].deps[1] = dependency

\* C16: for a dependency that is not a manifest path, restore is called
\* only when the ready flag of the nearest ancestor directory of the
\* dependency that is in the manifest is set; when no ancestor is in the
\* manifest the greenlet is not held at that dependency.
C16_WaitsForNearestAncestor ==
    \A p \in DOMAIN rtask :
        files[p] # None =>
            \A d \in NormDepends(files[p]) \ DOMAIN files :
                IF ManifestAncestors(d) # {}
                THEN RestoreInvoked(p) => NearestAncestor(d) \in rset
                ELSE ~HeldAt(p, d)

\* the greenlet of a path is held for ever at a dependency that has no
\* ancestor in the manifest
C16_Witness ==
    \E p \in DOMAIN rtask :
        /\ rtask[p].pc = "spinning"
        /\ rtask[p].deps[1] \notin DOMAIN files
        /\ ManifestAncestors(rtask[p].deps[1]) = {}

\* p is bound to handled-by-parent or to ignore
BoundToNoOp(p) ==
    files[p] # None /\ files[p].name \in {"parent", "ignore"}

\* C18: the restore of a path bound to handled-by-parent or to ignore
\* returns without raising and its ready flag is set, and restore_all
\* returns for a manifest whose bound entries are all of these.
C18_NoOpRestoreSucceeds ==
    /\ \A p \in DOMAIN rtask :
           (BoundToNoOp(p) /\ REnded(p)) => RestoreReturned(p) /\ p \in rset
    /\ (RestoreAllEnded /\ \A p \in DOMAIN rtask : BoundToNoOp(p)) =>
           rpc = "returned"

\* the restore of a path bound to ignore has raised, restore_all has ended
\* and the greenlet of a path that depends on it still waits
C18_Witness ==
    /\ RestoreAllEnded
    /\ \E p \in DOMAIN rtask :
           /\ BoundToNoOp(p) /\ RestoreRaised(p)
           /\ \E q \in DependentsOf(p) : rtask[q].pc = "waitdep"

\* C24: when check_cycles has passed and no restore has raised, restore_all
\* ends only when restore has been called for every bound path: no greenlet
\* is left waiting for an Event, also when it waits for the nearest ancestor
\* of a dependency that is not in the manifest.
C24_EveryBoundPathRestored ==
    (RestoreAllEnded /\ \A p \in DOMAIN rtask : ~RestoreRaised(p)) =>
        \A p \in DOMAIN rtask : files[p] # None => RestoreInvoked(p)

\* restore_all has ended on a manifest without a dependency cycle, no restore
\* has raised, and a greenlet still waits for the ancestor of a dependency
\* that is not in the manifest
C24_Witness ==
    /\ rpc = "LoopExit" /\ ~HasDependencyCycle
    /\ \A p \in DOMAIN rtask : ~RestoreRaised(p)
    /\ \E p \in DOMAIN rtask :
           /\ rtask[p].pc = "waitdep"
           /\ rtask[p].deps[1] \notin DOMAIN files

\* the manifest has an entry with no handler
HasUnbound == \E p \in DOMAIN files : files[p] = None

\* restore_all has ended, by a return or by an exception
RestoreAllOver == rpc \notin {"idle", "call", "gmap"}

\* C27: on a manifest with unbound entries restore_all ends without an
\* error of its own: when no restore has raised it returns, restore has
\* been called for every bound path and for no unbound one.
C27_UnboundEntriesSkipped ==
    (HasUnbound /\ RestoreAllOver
     /\ \A p \in DOMAIN rtask : ~RestoreRaised(p)) =>
        /\ rpc = "returned"
        /\ \A p \in DOMAIN files :
               files[p] # None => p \in DOMAIN rtask /\ RestoreInvoked(p)

\* restore_all has ended with the AttributeError of check_cycles on a
\* manifest that has an unbound entry and no dependency cycle, before any
\* greenlet was spawned
C27_Witness ==
    /\ HasUnbound /\ ~HasDependencyCycle
    /\ rpc = "AttributeError" /\ rtask = <<>>

\* the dependencies of the bound paths that are not manifest paths
OutsideDependencies ==
    UNION {NormDepends(files[p]) \ DOMAIN files :
              p \in {k \in DOMAIN files : files[k] # None}}

\* C28: the walk up the parent directories of a dependency that is not in
\* the manifest ends, in a manifest of absolute paths and in one of
\* relative paths: no greenlet is left in the while loop.
C28_WalkUpTerminates ==
    rtask # <<>> =>
        /\ \A d \in OutsideDependencies : WalkUp(d) # Loops
        /\ \A p \in DOMAIN rtask : rtask[p].pc # "spinning"

\* the greenlet of a relative path is in the while loop for its parent
\* directory, and the hub never runs again
C28_Witness ==
    /\ rpc = "gmap" /\ absolute = "rel"
    /\ \E p \in DOMAIN rtask :
           /\ rrun = <<p>> /\ rtask[p].pc = "spinning"
           /\ rtask[p].deps[1] = dirname(p)
           /\ WalkUp(dirname(p)) = Loops

(***************************************************************************)
(* Properties of the package index                                         *)
(***************************************************************************)

\* the indexer greenlet has ended, by returning or by raising
IndexerOver == indexer \in {"finished", "dead"}

\* C19: get_package returns None only after the indexer has finished;
\* while the indexer still runs a call blocks or returns a package name.
C19_NoneOnlyAfterIndexing ==
    \A l \in DOMAIN lookups :
        lookups[l].pc = "returned" =>
            /\ lookups[l].result = NoPackage => indexer = "finished"
            /\ ~IndexerOver => lookups[l].result.t = "package"

\* a call that waited has returned None, and so has a call made after the
\* indexer finished
C19_Witness ==
    /\ indexer = "finished"
    /\ \E l \in DOMAIN lookups :
           /\ lookups[l].pc = "returned" /\ lookups[l].result = NoPackage
           /\ \E k \in DOMAIN lookups :
                  /\ k # l /\ lookups[k].pc = "returned"
                  /\ lookups[k].result.t = "package"

\* C29: whatever the interleaving of the lookups with the indexer, what
\* get_package returns is a package name or None, never an Event left in
\* the index for waiting.
C29_NeverReturnsEvent ==
    \A l \in DOMAIN lookups :
        lookups[l].pc = "returned" => lookups[l].result.t \in {"package", "None"}

\* a call has returned the Event a later call left in the index for the
\* same path, for which that call still waits
C29_Witness ==
    \E l, k \in DOMAIN lookups :
        /\ l < k
        /\ lookups[l].pc = "returned" /\ lookups[k].pc = "get_first"
        /\ lookups[l].filepath = lookups[k].filepath
        /\ lookups[l].result = EventOf(k)

(***************************************************************************)
(* Properties of the Archive                                               *)
(***************************************************************************)

\* the dict a handler returned, as the set of its <<key, value>>
Items(d) == {<<d[i][1], d[i][2]>> : i \in 1..Len(d)}

\* C9: for every manifest m, writing m with Archive.add_manifest and
\* reading the archive back yields a manifest equal to m and, for each path,
\* get_extra_data(path) returns the same key-to-value map that the path's
\* handler produced at backup time.
C9_ArchiveRoundTrip ==
    /\ apc \notin {"idle", "call"} => apc \in {"written", "read"}
    /\ apc = "read" => SameManifest(files, readManifest.files)
    /\ \A p \in DOMAIN readExtra : readExtra[p] = Items(backup[p])

\* an archive was written and read back, and get_extra_data has answered
\* for a path whose handler returned data at backup time
C9_Witness ==
    /\ apc = "read"
    /\ \E p \in DOMAIN readExtra : Len(backup[p]) > 0

\* the member name is beneath the directory name dir
Beneath(name, dir) ==
    /\ Len(name) > Len(dir) + 1
    /\ SubSeq(name, 1, Len(dir)) = dir
    /\ name[Len(dir) + 1] = "/"

\* the places of the directory members in the tar file
DirectoryMembers == {i \in DOMAIN tar : ~tar[i].isreg}

\* C30: in an archive add_manifest has written to, the first member is the
\* one member named manifest; no two directory members have the same name,
\* and a directory member comes before every member beneath it.
C30_ManifestFirstDirectoriesOnce ==
    apc \notin {"idle", "call"} =>
        /\ Len(tar) > 0 /\ tar[1].name = <<"manifest">> /\ tar[1].isreg
        /\ \A i \in 2..Len(tar) : tar[i].name # <<"manifest">>
        /\ \A i \in DirectoryMembers :
               /\ \A j \in DirectoryMembers \ {i} : tar[j].name # tar[i].name
               /\ \A k \in DOMAIN tar :
                      Beneath(tar[k].name, tar[i].name) => i < k

\* an archive is written in which one directory member has beneath it the
\* data of two manifest paths
C30_Witness ==
    /\ apc = "written"
    /\ \E i \in DirectoryMembers :
           \E k, l \in DOMAIN tar :
               /\ tar[k].isreg /\ tar[l].isreg
               /\ Beneath(tar[k].name, tar[i].name)
               /\ Beneath(tar[l].name, tar[i].name)
               /\ dirname(tar[k].name) # dirname(tar[l].name)

\* C31: no two members of an archive add_manifest has written to have the
\* same name, whatever the order the paths are written in, also when an
\* extra-data key of a path is the name of a child path of the manifest.
C31_MemberNamesUnique ==
    apc \notin {"idle", "call"} =>
        \A i, j \in DOMAIN tar : i # j => tar[i].name # tar[j].name

\* an archive is written in which a directory member made for the data of
\* a child path and a later file member, the extra data of its parent,
\* have the same name
C31_Witness ==
    /\ apc = "written"
    /\ \E i, j \in DOMAIN tar :
           /\ i < j /\ tar[i].name = tar[j].name
           /\ ~tar[i].isreg /\ tar[j].isreg
           /\ \E p \in DOMAIN files :
                  /\ tar[j].name = join(archive_path(dirname(p)), basename(p))
                  /\ tar[i].name = archive_path(p)

=============================================================================
